---- MODULE Spec2Model ----
(***************************************************************************)
(* Model of the response capture and normalisation pipeline of the MLB     *)
(* umpire scorecard scrapers:                                              *)
(*   src/umpire_scorecard_scraper.py  (UmpireScorecardScraper, "full")     *)
(*   src/simple_umpire_scraper.py     (SimpleUmpireScraper,    "simple")   *)
(*   src/api_discovery.py             (APIDiscovery,        "discovery")   *)
(*                                                                         *)
(* JSON values are tagged records.  A Python dict is an ordered sequence   *)
(* of key/value entries with distinct keys (insertion order is kept, as in *)
(* Python).  Dictionary keys and opaque strings are TLA+ strings; strings  *)
(* whose characters the code inspects (URLs, content types, date texts)    *)
(* are sequences of one-character strings.                                 *)
(***************************************************************************)
EXTENDS Integers, Sequences, FiniteSets, TLC

VARIABLES
    flat_d,      \* flatten_dict: the Record passed in
    flat_sep,    \* flatten_dict: the separator passed in
    flat_res,    \* flatten_dict: the outcome of the call (raised, or the FlatRow)
    flat_pc,     \* flatten_dict: "call" before the call, "done" after it ("idle": not in use)
    flt_variant, \* filter_by_date_range: the scraper whose method is called
    flt_data,    \* filter_by_date_range: the Record sequence passed in
    flt_start,   \* filter_by_date_range: start_date (None or a text)
    flt_end,     \* filter_by_date_range: end_date (None or a text)
    flt_res,     \* filter_by_date_range: the outcome of the call
    flt_pc,      \* filter_by_date_range: "call", "done" or "idle"
    cap_variant, \* handlers: the script whose page session this is
    cap_list,    \* handlers: the captured list (responses, responses_data, all_responses)
    cap_src,     \* handlers: history, the response behind each entry of cap_list
    cap_pending, \* handlers: the responses whose handler awaits response.json()
    cap_patterns, \* handlers: request_patterns of the discovery tool
    cap_events,  \* handlers: how many responses the page has observed
    cap_seen,    \* handlers: history, the responses the page has observed
    cap_warnings, \* handlers: how many failures to read a body were logged
    cap_failed,  \* handlers: history, how many handlers failed to read a body
    cap_pc,      \* handlers: "open" while the browser is open, then "closed"
    ext_variant, \* extractor: the scraper whose loop runs
    ext_name,    \* extractor: umpire_name
    ext_responses, \* extractor: the captured list the loop reads (and writes into)
    ext_captured, \* extractor: history, the captured list as it was handed over
    ext_tables,  \* extractor: the HTML tables of the page (simple scraper's fallback)
    ext_start,   \* extractor: start_date of get_umpire_data_async
    ext_end,     \* extractor: end_date of get_umpire_data_async
    ext_collected, \* extractor: collected_data
    ext_now,     \* extractor: the last clock reading
    ext_table,   \* extractor: the table save_to_csv wrote for collected_data
    ext_pc,      \* extractor: "process", "processed", "done", "raised" or "idle"
    wr_variant,  \* save_to_csv: the scraper whose method is called
    wr_data,     \* save_to_csv: data
    wr_filename, \* save_to_csv: filename (None when not given)
    wr_na_text,  \* save_to_csv: whether astype(str) writes an absent value as text
    wr_files,    \* save_to_csv: the files written, each a path and a table
    wr_dirs,     \* save_to_csv: the directories created
    wr_log,      \* save_to_csv: the messages logged
    wr_ret,      \* save_to_csv: the value returned
    wr_pc,       \* save_to_csv: "call", "done", "raised" or "idle"
    bulk_variant, \* multi-target run: the scraper whose loop runs
    bulk_names,  \* multi-target run: umpire_names
    bulk_start,  \* multi-target run: start_date
    bulk_end,    \* multi-target run: end_date
    bulk_i,      \* multi-target run: the index of the next target
    bulk_all,    \* multi-target run: all_data
    bulk_errors, \* multi-target run: how many errors the loop's handler logged
    bulk_clock,  \* multi-target run: the time slept so far
    bulk_visits, \* multi-target run: history, one entry per iteration
    bulk_pc,     \* multi-target run: "loop", "returned" or "idle"
    run_variant, \* stepwise run: which scraper
    run_names,   \* stepwise run: umpire_names
    run_i,       \* stepwise run: the index of the current target
    run_pc,      \* stepwise run: the await the main flow is at, or "loop",
                 \* "returned", "interrupted", "idle"
    run_open,    \* stepwise run: the targets whose browser is open
    run_opened,  \* stepwise run: history, how many browsers were started
    run_page,    \* stepwise run: whether the page of this target has its handler
    run_responses, \* stepwise run: the list the handler of this target appends to
    run_pending, \* stepwise run: the responses whose handler awaits response.json()
    run_arrived, \* stepwise run: how many responses the page of this target emitted
    run_collected, \* stepwise run: collected_data of this target
    run_all,     \* stepwise run: all_data
    run_errors,  \* stepwise run: how many errors the loop's handler logged
    run_interrupted, \* stepwise run: whether the user has interrupted
    run_result   \* stepwise run: how the call for this target ended: "none",
                 \* "returned" or "raised"

flatVars == <<flat_d, flat_sep, flat_res, flat_pc>>
filterVars == <<flt_variant, flt_data, flt_start, flt_end, flt_res, flt_pc>>

captureVars == <<cap_variant, cap_list, cap_src, cap_pending, cap_patterns, cap_events, cap_seen,
                 cap_warnings, cap_failed, cap_pc>>
extractVars == <<ext_variant, ext_name, ext_responses, ext_captured, ext_tables, ext_start,
                 ext_end, ext_collected, ext_now, ext_table, ext_pc>>

writerVars == <<wr_variant, wr_data, wr_filename, wr_na_text, wr_files, wr_dirs, wr_log, wr_ret,
                wr_pc>>

bulkVars == <<bulk_variant, bulk_names, bulk_start, bulk_end, bulk_i, bulk_all, bulk_errors,
              bulk_clock, bulk_visits, bulk_pc>>

runVars == <<run_variant, run_names, run_i, run_pc, run_open, run_opened, run_page,
             run_responses,
             run_pending, run_arrived, run_collected, run_all, run_errors, run_interrupted,
             run_result>>

vars == <<flatVars, filterVars, captureVars, extractVars, writerVars, bulkVars, runVars>>

-----------------------------------------------------------------------------
(* JSON values                                                             *)

Num(n) == [t |-> "num", n |-> n]
Str(s) == [t |-> "str", s |-> s]
Txt(cs) == [t |-> "str", cs |-> cs]
Null == [t |-> "null"]
Map(kv) == [t |-> "map", kv |-> kv]
List(el) == [t |-> "list", el |-> el]
KV(k, v) == [k |-> k, v |-> v]

IsMap(v) == v.t = "map"
IsList(v) == v.t = "list"

\* All sequences over S of length at most n.
SeqUpTo(S, n) == UNION {[1..m -> S] : m \in 0..n}

Keys(kv) == {kv[i].k : i \in 1..Len(kv)}
HasKey(kv, k) == \E i \in 1..Len(kv) : kv[i].k = k
Get(kv, k) == kv[CHOOSE i \in 1..Len(kv) : kv[i].k = k].v

\* d[k] = v on a Python dict: an existing key keeps its position.
DictSet(kv, k, v) ==
    IF HasKey(kv, k)
    THEN [i \in 1..Len(kv) |-> IF kv[i].k = k THEN KV(k, v) ELSE kv[i]]
    ELSE Append(kv, KV(k, v))

\* dict(items): later pairs overwrite earlier ones at the same key.
RECURSIVE DictOf(_)
DictOf(items) ==
    IF items = <<>> THEN <<>>
    ELSE LET n == Len(items)
         IN DictSet(DictOf(SubSeq(items, 1, n - 1)), items[n].k, items[n].v)

Digits == <<"0", "1", "2", "3", "4", "5", "6", "7", "8", "9">>

\* str(i) for the small non-negative integers the model meets.
RECURSIVE IntStr(_)
IntStr(i) == IF i < 10 THEN Digits[i + 1] ELSE IntStr(i \div 10) \o Digits[(i % 10) + 1]

\* repr(v) of a JSON value as Python prints it inside str(list).
RECURSIVE PyRepr(_)
RECURSIVE PyJoin(_, _)
RECURSIVE PyJoinKV(_, _)
PyJoin(el, i) ==
    IF i > Len(el) THEN ""
    ELSE (IF i > 1 THEN ", " ELSE "") \o PyRepr(el[i]) \o PyJoin(el, i + 1)
PyJoinKV(kv, i) ==
    IF i > Len(kv) THEN ""
    ELSE (IF i > 1 THEN ", " ELSE "") \o "'" \o kv[i].k \o "': " \o PyRepr(kv[i].v)
         \o PyJoinKV(kv, i + 1)
PyRepr(v) ==
    CASE v.t = "num" -> IntStr(v.n)
      [] v.t = "str" -> "'" \o v.s \o "'"
      [] v.t = "null" -> "None"
      [] v.t = "list" -> "[" \o PyJoin(v.el, 1) \o "]"
      [] v.t = "map" -> "{" \o PyJoinKV(v.kv, 1) \o "}"

-----------------------------------------------------------------------------
(* flatten_dict                                                            *)

FlatRaised == [err |-> TRUE, row |-> <<>>]

\* The same key built without the test on parent_key.
NewKeyPrefixed(parent_key, sep, k) == parent_key \o sep \o k
\* Line 245: new_key = f"{parent_key}{sep}{k}" if parent_key else k
NewKey(parent_key, sep, k) == IF parent_key # "" THEN parent_key \o sep \o k ELSE k

\* Line 252: the key under which element i of a list of dicts is flattened.
IndexKey(new_key, sep, i) == new_key \o "_" \o IntStr(i)

\* Line 250: v and isinstance(v[0], dict)
FirstIsDict(el) == Len(el) > 0 /\ IsMap(el[1])

\* Line 254: a list that is not recursed into is stored as str(v).
ListAsScalarKept(v) == v
ListAsScalar(v) == Str(PyRepr(v))

RECURSIVE FlattenDict(_, _, _)
RECURSIVE FlattenLoop(_, _, _, _, _)
RECURSIVE FlattenList(_, _, _, _, _)

\* Lines 251-252: for i, item in enumerate(v): items.extend(flatten_dict(item, ...).items())
FlattenList(el, i, new_key, sep, items) ==
    IF i > Len(el) THEN [err |-> FALSE, items |-> items]
    ELSE LET r == FlattenDict(el[i], IndexKey(new_key, sep, i - 1), sep)
         IN IF r.err THEN [err |-> TRUE, items |-> <<>>]
            ELSE FlattenList(el, i + 1, new_key, sep, items \o r.row)

\* Lines 244-256: the loop over d.items(), from entry i on.
FlattenLoop(kv, i, parent_key, sep, items) ==
    IF i > Len(kv) THEN [err |-> FALSE, items |-> items]
    ELSE LET k == kv[i].k
             v == kv[i].v
             new_key == NewKey(parent_key, sep, k)
         IN CASE IsMap(v) ->
                   LET r == FlattenDict(v, new_key, sep)
                   IN IF r.err THEN [err |-> TRUE, items |-> <<>>]
                      ELSE FlattenLoop(kv, i + 1, parent_key, sep, items \o r.row)
              [] IsList(v) ->
                   IF FirstIsDict(v.el)
                   THEN LET r == FlattenList(v.el, 1, new_key, sep, items)
                        IN IF r.err THEN r
                           ELSE FlattenLoop(kv, i + 1, parent_key, sep, r.items)
                   ELSE FlattenLoop(kv, i + 1, parent_key, sep,
                                    Append(items, KV(new_key, ListAsScalar(v))))
              [] OTHER ->
                   FlattenLoop(kv, i + 1, parent_key, sep, Append(items, KV(new_key, v)))

\* Lines 239-257.  d.items() raises AttributeError when d is not a dict.
FlattenDict(d, parent_key, sep) ==
    IF ~IsMap(d) THEN FlatRaised
    ELSE LET r == FlattenLoop(d.kv, 1, parent_key, sep, <<>>)
         IN IF r.err THEN FlatRaised ELSE [err |-> FALSE, row |-> DictOf(r.items)]

-----------------------------------------------------------------------------
(* Inputs of flatten_dict                                                  *)

MaxLen == 2

Leaves == {Num(1), Num(2), Str("s"), Null}
InnerMaps == {Map(<<>>)} \cup {Map(<<KV("x", l)>>) : l \in Leaves}
Elements == Leaves \cup InnerMaps \cup {List(<<>>)}
Lists == {List(s) : s \in SeqUpTo(Elements, MaxLen)}
Values == Leaves \cup Lists \cup {Map(<<>>)} \cup {Map(<<KV("b", v)>>) : v \in Leaves \cup Lists}
FlatRecords ==
    {Map(<<>>)} \cup {Map(<<KV("a", v)>>) : v \in Values}
    \cup {Map(<<KV("a", v), KV(k, l)>>) : v \in Values, k \in {"b", "a_b"}, l \in Leaves}
    \cup {Map(<<KV(k, l), KV("a", v)>>) : v \in Values, k \in {"b", "a_b"}, l \in Leaves}
Separators == {"_", "."}

FlatInit ==
    /\ flat_d \in FlatRecords
    /\ flat_sep \in Separators
    /\ flat_res = [err |-> FALSE, row |-> <<>>]
    /\ flat_pc = "call"

\* One call flatten_dict(flat_d, sep=flat_sep).
FlattenCall ==
    /\ flat_pc = "call"
    /\ flat_res' = FlattenDict(flat_d, "", flat_sep)
    /\ flat_pc' = "done"
    /\ UNCHANGED <<flat_d, flat_sep, filterVars, captureVars, extractVars, writerVars, bulkVars,
                   runVars>>

FlatIdle ==
    /\ flat_d = Map(<<>>)
    /\ flat_sep = "_"
    /\ flat_res = [err |-> FALSE, row |-> <<>>]
    /\ flat_pc = "idle"

-----------------------------------------------------------------------------
(* Date texts, strptime and dateutil's parser                              *)

IsDigit(c) == c \in {Digits[i] : i \in 1..10}
DigitVal(c) == (CHOOSE i \in 1..10 : Digits[i] = c) - 1
AllDigits(cs) == \A i \in 1..Len(cs) : IsDigit(cs[i])

RECURSIVE NumOf(_)
NumOf(cs) == IF cs = <<>> THEN 0
             ELSE NumOf(SubSeq(cs, 1, Len(cs) - 1)) * 10 + DigitVal(cs[Len(cs)])

\* s.split(c): the pieces of cs between the occurrences of c.
RECURSIVE Split(_, _)
Split(cs, c) ==
    IF \A i \in 1..Len(cs) : cs[i] # c THEN <<cs>>
    ELSE LET p == CHOOSE i \in 1..Len(cs) : cs[i] = c /\ \A j \in 1..(i - 1) : cs[j] # c
         IN <<SubSeq(cs, 1, p - 1)>> \o Split(SubSeq(cs, p + 1, Len(cs)), c)

\* s[:n]
Take(cs, n) == SubSeq(cs, 1, IF Len(cs) < n THEN Len(cs) ELSE n)

\* A datetime: calendar date, second of the day, and whether it carries a
\* time zone (an "aware" datetime).
Dt(y, mo, d, sec, aware) == [y |-> y, mo |-> mo, d |-> d, sec |-> sec, aware |-> aware]
DtMin == Dt(1, 1, 1, 0, FALSE)
DtMax == Dt(9999, 12, 31, 86399, FALSE)
NoDate == [ok |-> FALSE, dt |-> DtMin]
Parsed(dt) == [ok |-> TRUE, dt |-> dt]

\* a <= b on datetimes: by year, month, day, then second of the day.
DtLeq(a, b) ==
    \/ a.y < b.y
    \/ a.y = b.y /\ a.mo < b.mo
    \/ a.y = b.y /\ a.mo = b.mo /\ a.d < b.d
    \/ a.y = b.y /\ a.mo = b.mo /\ a.d = b.d /\ a.sec <= b.sec

IsLeap(y) == (y % 4 = 0 /\ y % 100 # 0) \/ y % 400 = 0
DaysIn(y, mo) == IF mo = 2 THEN (IF IsLeap(y) THEN 29 ELSE 28)
                 ELSE IF mo \in {4, 6, 9, 11} THEN 30 ELSE 31
ValidDate(y, mo, d) == y >= 1 /\ mo \in 1..12 /\ d >= 1 /\ d <= DaysIn(y, mo)

YearField(f) == Len(f) = 4 /\ AllDigits(f)
ShortField(f) == Len(f) \in 1..2 /\ AllDigits(f)

\* The date a year, month and day field denote, if any.
DateOf(fy, fm, fd) ==
    IF YearField(fy) /\ ShortField(fm) /\ ShortField(fd)
       /\ ValidDate(NumOf(fy), NumOf(fm), NumOf(fd))
    THEN Parsed(Dt(NumOf(fy), NumOf(fm), NumOf(fd), 0, FALSE))
    ELSE NoDate

\* The second of the day of an H:M:S text, or -1.
TimeOf(cs) ==
    LET f == Split(cs, ":")
    IN IF Len(f) = 3 /\ \A i \in 1..3 : ShortField(f[i])
          /\ NumOf(f[1]) < 24 /\ NumOf(f[2]) < 60 /\ NumOf(f[3]) < 60
       THEN NumOf(f[1]) * 3600 + NumOf(f[2]) * 60 + NumOf(f[3])
       ELSE -1

RECURSIVE Strptime(_, _)
\* datetime.strptime(cs, fmt) for the four formats of the simple scraper; the
\* whole text must match (ValueError, here NoDate, otherwise).
Strptime(cs, fmt) ==
    CASE fmt = "%Y-%m-%d" ->
           LET f == Split(cs, "-") IN IF Len(f) = 3 THEN DateOf(f[1], f[2], f[3]) ELSE NoDate
      [] fmt = "%m/%d/%Y" ->
           LET f == Split(cs, "/") IN IF Len(f) = 3 THEN DateOf(f[3], f[1], f[2]) ELSE NoDate
      [] fmt = "%d/%m/%Y" ->
           LET f == Split(cs, "/") IN IF Len(f) = 3 THEN DateOf(f[3], f[2], f[1]) ELSE NoDate
      [] fmt = "%Y-%m-%d %H:%M:%S" ->
           LET p == Split(cs, " ")
           IN IF Len(p) = 2 /\ Strptime(p[1], "%Y-%m-%d").ok /\ TimeOf(p[2]) >= 0
              THEN LET r == Strptime(p[1], "%Y-%m-%d").dt
                   IN Parsed(Dt(r.y, r.mo, r.d, TimeOf(p[2]), FALSE))
              ELSE NoDate

\* dateutil.parser.parse(cs) on the shapes the model feeds it: an ISO date, a
\* month/day/year date (day first when the first field exceeds 12), either one
\* followed by " " or "T" and H:M:S, and a trailing "Z" making the result
\* aware.  Anything else raises ParserError (NoDate).
DateutilDate(cs) ==
    IF Strptime(cs, "%Y-%m-%d").ok THEN Strptime(cs, "%Y-%m-%d")
    ELSE IF Strptime(cs, "%m/%d/%Y").ok THEN Strptime(cs, "%m/%d/%Y")
    ELSE Strptime(cs, "%d/%m/%Y")

DateutilParse(cs) ==
    LET aware == Len(cs) > 0 /\ cs[Len(cs)] = "Z"
        body == IF aware THEN SubSeq(cs, 1, Len(cs) - 1) ELSE cs
        bt == Split(body, "T")
        p == IF Len(bt) = 2 THEN bt ELSE Split(body, " ")
    IN IF Len(p) = 1 /\ ~aware THEN DateutilDate(p[1])
       ELSE IF Len(p) = 2 /\ DateutilDate(p[1]).ok /\ TimeOf(p[2]) >= 0
       THEN LET r == DateutilDate(p[1]).dt
            IN Parsed(Dt(r.y, r.mo, r.d, TimeOf(p[2]), aware))
       ELSE NoDate

\* str(v) of a date field's value, as characters.
PyStrChars(v) ==
    CASE v.t = "str" -> v.cs
      [] v.t = "null" -> <<"N", "o", "n", "e">>
      [] v.t = "num" -> <<IntStr(v.n)>>

\* bool(v)
Truthy(v) ==
    CASE v.t = "null" -> FALSE
      [] v.t = "str" -> v.cs # <<>>
      [] v.t = "num" -> v.n # 0
      [] v.t = "list" -> v.el # <<>>
      [] v.t = "map" -> v.kv # <<>>

-----------------------------------------------------------------------------
(* filter_by_date_range                                                    *)

\* The candidate date fields, in the order each variant scans them.
DateFields(variant) ==
    IF variant = "full"
    THEN <<"date", "game_date", "Date", "gameDate", "created_at", "timestamp">>
    ELSE <<"date", "game_date", "Date", "gameDate", "Game Date">>

SimpleFormats == <<"%Y-%m-%d", "%m/%d/%Y", "%d/%m/%Y", "%Y-%m-%d %H:%M:%S">>

\* simple, lines 208-213: the first format that parses date_str[:10].
RECURSIVE TryFormats(_, _)
TryFormats(cs, i) ==
    IF i > Len(SimpleFormats) THEN NoDate
    ELSE IF Strptime(Take(cs, 10), SimpleFormats[i]).ok
         THEN Strptime(Take(cs, 10), SimpleFormats[i])
         ELSE TryFormats(cs, i + 1)

\* The attempt on one candidate field: full, lines 196-201; simple, lines 204-217.
TryField(variant, item, field) ==
    IF ~HasKey(item.kv, field) THEN NoDate
    ELSE IF variant = "full" THEN DateutilParse(PyStrChars(Get(item.kv, field)))
    ELSE IF Truthy(Get(item.kv, field)) THEN TryFormats(PyStrChars(Get(item.kv, field)), 1)
    ELSE NoDate

\* The loop over date_fields from field i on, leaving at the first success.
RECURSIVE ResolveLoop(_, _, _)
ResolveLoop(variant, item, i) ==
    IF i > Len(DateFields(variant)) THEN NoDate
    ELSE IF TryField(variant, item, DateFields(variant)[i]).ok
         THEN TryField(variant, item, DateFields(variant)[i])
         ELSE ResolveLoop(variant, item, i + 1)

\* The same loop without its break: the last field that parses wins.
RECURSIVE ResolveLoopNoBreak(_, _, _, _)
ResolveLoopNoBreak(variant, item, i, found) ==
    IF i > Len(DateFields(variant)) THEN found
    ELSE IF TryField(variant, item, DateFields(variant)[i]).ok
         THEN ResolveLoopNoBreak(variant, item, i + 1, TryField(variant, item, DateFields(variant)[i]))
         ELSE ResolveLoopNoBreak(variant, item, i + 1, found)

ResolveDateLast(variant, item) == ResolveLoopNoBreak(variant, item, 1, NoDate)
\* item_date of one item: full, lines 192-201; simple, lines 200-217.
ResolveDate(variant, item) == ResolveLoop(variant, item, 1)

\* not (start_date or end_date)
NoBoundsNever(start, end) == FALSE
NoBounds(start, end) == ~(Truthy(start) \/ Truthy(end))

\* The parsed boundary: full, lines 187-188 (dateutil); simple, lines 192-193.
ParseBound(variant, bound, open) ==
    IF ~Truthy(bound) THEN Parsed(open)
    ELSE IF variant = "full" THEN DateutilParse(bound.cs)
    ELSE Strptime(bound.cs, "%Y-%m-%d")

\* Comparing an aware with a naive datetime raises TypeError.
CompareRaises(a, b) == a.aware # b.aware

\* item_date and start_dt <= item_date <= end_dt, once no comparison raises.
KeepUndated(r, start_dt, end_dt) == ~r.ok \/ (DtLeq(start_dt, r.dt) /\ DtLeq(r.dt, end_dt))
Keep(r, start_dt, end_dt) == r.ok /\ DtLeq(start_dt, r.dt) /\ DtLeq(r.dt, end_dt)

\* The chained comparison raises when its first comparison does, or when that
\* one holds and the second raises.
KeepRaises(r, start_dt, end_dt) ==
    r.ok /\ (CompareRaises(start_dt, r.dt)
             \/ (DtLeq(start_dt, r.dt) /\ CompareRaises(r.dt, end_dt)))

FilterResult(raised, out, dates) == [raised |-> raised, out |-> out, dates |-> dates]

\* The loop over data from item i on; dates collects each item's item_date.
RECURSIVE FilterLoop(_, _, _, _, _, _, _)
FilterLoop(variant, data, start_dt, end_dt, i, out, dates) ==
    IF i > Len(data) THEN FilterResult(FALSE, out, dates)
    ELSE LET r == ResolveDate(variant, data[i])
         IN IF KeepRaises(r, start_dt, end_dt)
            THEN FilterResult(TRUE, <<>>, Append(dates, r))
            ELSE FilterLoop(variant, data, start_dt, end_dt, i + 1,
                            IF Keep(r, start_dt, end_dt) THEN Append(out, data[i]) ELSE out,
                            Append(dates, r))

\* full, lines 179-207; simple, lines 184-223.
FilterByDateRange(variant, data, start, end) ==
    IF NoBounds(start, end) THEN FilterResult(FALSE, data, <<>>)
    ELSE LET s == ParseBound(variant, start, DtMin)
             e == ParseBound(variant, end, DtMax)
         IN IF ~s.ok \/ ~e.ok
            THEN (IF variant = "full"
                  THEN FilterResult(TRUE, <<>>, <<>>)
                  ELSE FilterResult(FALSE, data, <<>>))
            ELSE FilterLoop(variant, data, s.dt, e.dt, 1, <<>>, <<>>)

-----------------------------------------------------------------------------
(* Inputs of filter_by_date_range                                          *)

MaxRecs == 2

T_2023_12_31 == <<"2", "0", "2", "3", "-", "1", "2", "-", "3", "1">>
T_2024_01_01 == <<"2", "0", "2", "4", "-", "0", "1", "-", "0", "1">>
T_2024_06_15 == <<"2", "0", "2", "4", "-", "0", "6", "-", "1", "5">>
T_2024_12_31 == <<"2", "0", "2", "4", "-", "1", "2", "-", "3", "1">>
T_2024_12_31_1530 == <<"2", "0", "2", "4", "-", "1", "2", "-", "3", "1", " ", "1", "5", ":", "3", "0", ":", "0", "0">>
T_2024_06_15_Z == <<"2", "0", "2", "4", "-", "0", "6", "-", "1", "5", "T", "1", "2", ":", "0", "0", ":", "0", "0", "Z">>
T_15_06_2024 == <<"1", "5", "/", "0", "6", "/", "2", "0", "2", "4">>
T_junk == <<"n", "/", "a">>
T_empty == <<>>

DateValues ==
    {Txt(T_2023_12_31), Txt(T_2024_06_15), Txt(T_2024_12_31), Txt(T_2024_12_31_1530),
     Txt(T_2024_06_15_Z), Txt(T_15_06_2024), Txt(T_junk), Txt(T_empty), Null}
GameDateValues == {Txt(T_2024_06_15)}

\* Values of "date" in the Records that also hold a "game_date": one that
\* parses, one that does not, and null.
FirstDateValues == {Txt(T_2023_12_31), Txt(T_junk), Null}

DatedRecords ==
    {Map(<<KV("id", Num(1))>>)}
    \cup {Map(<<KV("id", Num(1)), KV("date", d)>>) : d \in DateValues}
    \cup {Map(<<KV("id", Num(1)), KV("game_date", g)>>) : g \in GameDateValues}
    \cup {Map(<<KV("id", Num(1)), KV("game_date", g), KV("date", d)>>) :
            d \in FirstDateValues, g \in GameDateValues}

StartValues == {Null, Txt(T_empty), Txt(T_2024_01_01)}
EndValues == {Null, Txt(T_empty), Txt(T_2024_12_31), Txt(T_junk)}
Variants == {"full", "simple"}

FilterInit ==
    /\ flt_variant \in Variants
    /\ flt_data \in SeqUpTo(DatedRecords, MaxRecs)
    /\ flt_start \in StartValues
    /\ flt_end \in EndValues
    /\ flt_res = FilterResult(FALSE, <<>>, <<>>)
    /\ flt_pc = "call"

\* One call filter_by_date_range(flt_data, flt_start, flt_end).
FilterCall ==
    /\ flt_pc = "call"
    /\ flt_res' = FilterByDateRange(flt_variant, flt_data, flt_start, flt_end)
    /\ flt_pc' = "done"
    /\ UNCHANGED <<flt_variant, flt_data, flt_start, flt_end, flatVars, captureVars, extractVars,
                   writerVars, bulkVars, runVars>>

FilterIdle ==
    /\ flt_variant = "full"
    /\ flt_data = <<>>
    /\ flt_start = Null
    /\ flt_end = Null
    /\ flt_res = FilterResult(FALSE, <<>>, <<>>)
    /\ flt_pc = "idle"

-----------------------------------------------------------------------------
(* The response handlers: handle_response of intercept_network_requests    *)
(* (full, lines 83-97), of scrape_umpire_page (simple, lines 73-83) and of  *)
(* discover_endpoints (discovery, lines 68-88)                              *)

UpperCase == <<"A", "B", "C", "D", "E", "F", "G", "H", "I", "J", "K", "L", "M",
               "N", "O", "P", "Q", "R", "S", "T", "U", "V", "W", "X", "Y", "Z">>
LowerCase == <<"a", "b", "c", "d", "e", "f", "g", "h", "i", "j", "k", "l", "m",
               "n", "o", "p", "q", "r", "s", "t", "u", "v", "w", "x", "y", "z">>

\* s.lower()
LowerChar(c) ==
    IF \E i \in 1..Len(UpperCase) : UpperCase[i] = c
    THEN LowerCase[CHOOSE i \in 1..Len(UpperCase) : UpperCase[i] = c]
    ELSE c
Lower(cs) == [i \in 1..Len(cs) |-> LowerChar(cs[i])]

\* sub in s
Contains(sub, s) ==
    \E i \in 0..(Len(s) - Len(sub)) : SubSeq(s, i + 1, i + Len(sub)) = sub

K_api == <<"a", "p", "i">>
K_data == <<"d", "a", "t", "a">>
K_json == <<"j", "s", "o", "n">>

\* full, line 84: the keywords a response URL must contain one of.
ResponseKeywords == {K_api, K_data, K_json}

\* discovery, lines 118-127
ApiIndicators ==
    {<<"/", "a", "p", "i", "/">>, <<"/", "d", "a", "t", "a", "/">>, <<"/", "j", "s", "o", "n", "/">>, <<"a", "j", "a", "x">>, <<"x", "h", "r">>, <<".", "j", "s", "o", "n">>, <<"g", "r", "a", "p", "h", "q", "l">>, <<"r", "e", "s", "t">>}

\* discovery, lines 116-130
IsApiEndpoint(url) == \E ind \in ApiIndicators : Contains(ind, Lower(url))

\* A response the page observes: its URL, status, content-type header (empty
\* when the header is missing), the value its body parses to, and whether
\* response.json() succeeds on it.
Response(url, status, ctype, body, json_ok) ==
    [url |-> url, status |-> status, ctype |-> ctype, body |-> body, json_ok |-> json_ok]

\* 'json' in response.headers.get('content-type', '').lower()
JsonContentType(r) == Contains(K_json, Lower(r.ctype))

\* The status test of the handler: only the full scraper has one (line 84).
StatusPasses(variant, r) == variant = "full" => r.status = 200

\* The URL test of the handler: full, line 84; discovery, line 69; the simple
\* scraper has none.
UrlPasses(variant, r) ==
    CASE variant = "full" -> \E kw \in ResponseKeywords : Contains(kw, Lower(r.url))
      [] variant = "discovery" -> IsApiEndpoint(r.url)
      [] OTHER -> TRUE

\* Whether the handler goes on to await response.json().
ReadsBody(variant, r) ==
    UrlPasses(variant, r) /\ StatusPasses(variant, r) /\ JsonContentType(r)

\* What the handler does with an exception of response.json(): full, lines
\* 96-97 and discovery, lines 87-88 log a warning; simple, lines 82-83 pass.
LogsFailure(variant) == variant # "simple"

\* datetime.now().isoformat() at clock reading t.
IsoFormat(t) == "2025-09-01T12:00:00.00000" \o IntStr(t)

\* The entry the handler appends: full, lines 89-94; simple, lines 77-80;
\* discovery, lines 74-80.  The content type stands for the headers.
Captured(variant, r, t) ==
    CASE variant = "full" ->
           [url |-> r.url, status |-> r.status, data |-> r.body, headers |-> r.ctype]
      [] variant = "simple" ->
           [url |-> r.url, data |-> r.body]
      [] OTHER ->
           [url |-> r.url, status |-> r.status, headers |-> r.ctype, data |-> r.body,
            timestamp |-> IsoFormat(t)]

\* type(v).__name__
TypeName(v) ==
    CASE v.t = "num" -> "int"
      [] v.t = "str" -> "str"
      [] v.t = "null" -> "NoneType"
      [] v.t = "list" -> "list"
      [] v.t = "map" -> "dict"

KeyList(kv) == [i \in 1..Len(kv) |-> kv[i].k]
SampleTypes(kv) == [i \in 1..Len(kv) |-> KV(kv[i].k, TypeName(kv[i].v))]

\* discovery, lines 132-150: request_patterns after analysing one body.
AnalyzeResponseStructure(patterns, url, data) ==
    IF IsMap(data)
    THEN DictSet(patterns, url,
                 [type |-> "object", count |-> 0, keys |-> KeyList(data.kv),
                  sample |-> SampleTypes(data.kv)])
    ELSE IF IsList(data) /\ FirstIsDict(data.el)
    THEN DictSet(patterns, url,
                 [type |-> "array", count |-> Len(data.el), keys |-> KeyList(data.el[1].kv),
                  sample |-> SampleTypes(data.el[1].kv)])
    ELSE patterns

\* seq without its element at position i.
RemoveAt(seq, i) == SubSeq(seq, 1, i - 1) \o SubSeq(seq, i + 1, Len(seq))

-----------------------------------------------------------------------------
(* Inputs of the handlers                                                  *)

MaxEvents == 2

U_api == <<"/", "a", "p", "i", "/", "g">>
U_xhr == <<"/", "x", "h", "r", "/", "q">>
U_img == <<"/", "i", "m", "g", "/", "p">>
U_API == <<"/", "A", "P", "I", "/", "g">>
CT_json == <<"a", "p", "p", "l", "i", "c", "a", "t", "i", "o", "n", "/", "j", "s", "o", "n">>
CT_html == <<"t", "e", "x", "t", "/", "h", "t", "m", "l">>
CT_none == <<>>

ObservedUrls == {U_api, U_xhr, U_img, U_API}
Statuses == {200, 404}
ContentTypes == {CT_json, CT_html, CT_none}
RecOne == Map(<<KV("id", Num(1))>>)

Responses ==
    {Response(u, s, c, RecOne, ok) :
        u \in ObservedUrls, s \in Statuses, c \in ContentTypes, ok \in BOOLEAN}

CaptureInit ==
    /\ cap_variant \in {"full", "simple", "discovery"}
    /\ cap_list = <<>>
    /\ cap_src = <<>>
    /\ cap_pending = <<>>
    /\ cap_patterns = <<>>
    /\ cap_events = 0
    /\ cap_seen = {}
    /\ cap_warnings = 0
    /\ cap_failed = 0
    /\ cap_pc = "open"

\* A response is observed while the page is open and its handler runs up to
\* the await of response.json().
ResponseArrives ==
    /\ cap_pc = "open"
    /\ cap_events < MaxEvents
    /\ \E r \in Responses :
          /\ cap_pending' = IF ReadsBody(cap_variant, r) THEN Append(cap_pending, r)
                            ELSE cap_pending
          /\ cap_seen' = cap_seen \cup {r}
    /\ cap_events' = cap_events + 1
    /\ UNCHANGED <<cap_variant, cap_list, cap_src, cap_patterns, cap_warnings, cap_failed, cap_pc>>
    /\ UNCHANGED <<flatVars, filterVars, extractVars, writerVars, bulkVars, runVars>>

\* The await of one handler completes: the body is appended when it parsed
\* while the page was open; a failure is caught inside the handler.
JsonCompletes ==
    /\ \E i \in 1..Len(cap_pending) :
          LET r == cap_pending[i]
          IN /\ cap_pending' = RemoveAt(cap_pending, i)
             /\ IF r.json_ok /\ cap_pc = "open"
                THEN /\ cap_list' = Append(cap_list, Captured(cap_variant, r, cap_events))
                     /\ cap_src' = Append(cap_src, r)
                     /\ cap_patterns' =
                          IF cap_variant = "discovery"
                          THEN AnalyzeResponseStructure(cap_patterns, r.url, r.body)
                          ELSE cap_patterns
                     /\ UNCHANGED <<cap_warnings, cap_failed>>
                ELSE /\ cap_warnings' = IF LogsFailure(cap_variant) THEN cap_warnings + 1
                                        ELSE cap_warnings
                     /\ cap_failed' = cap_failed + 1
                     /\ UNCHANGED <<cap_list, cap_src, cap_patterns>>
    /\ UNCHANGED <<cap_variant, cap_events, cap_seen, cap_pc>>
    /\ UNCHANGED <<flatVars, filterVars, extractVars, writerVars, bulkVars, runVars>>

\* await browser.close(): full, line 108; simple, line 149; discovery, line 107.
CloseSession ==
    /\ cap_pc = "open"
    /\ cap_pc' = "closed"
    /\ UNCHANGED <<cap_variant, cap_list, cap_src, cap_pending, cap_patterns, cap_events, cap_seen,
                   cap_warnings, cap_failed>>
    /\ UNCHANGED <<flatVars, filterVars, extractVars, writerVars, bulkVars, runVars>>

CaptureIdle ==
    /\ cap_variant = "full"
    /\ cap_list = <<>>
    /\ cap_src = <<>>
    /\ cap_pending = <<>>
    /\ cap_patterns = <<>>
    /\ cap_events = 0
    /\ cap_seen = {}
    /\ cap_warnings = 0
    /\ cap_failed = 0
    /\ cap_pc = "idle"

-----------------------------------------------------------------------------
(* The Record extractor: the processing loops of get_umpire_data_async     *)
(* (full, lines 138-160) and scrape_umpire_page (simple, lines 114-151)    *)

\* The three assignments on one dict: full, lines 146-148 and 151-153; simple,
\* lines 119-120 and 123-124.
Tag(variant, kv, name, t, url) ==
    IF variant = "full"
    THEN DictSet(DictSet(DictSet(kv, "umpire_name", Str(name)),
                         "scraped_at", Str(IsoFormat(t))),
                 "source_url", Txt(url))
    ELSE DictSet(DictSet(kv, "umpire_name", Str(name)),
                 "scraped_timestamp", Str(IsoFormat(t)))

\* The positions of the elements of a list body the loop takes up:
\* for item in response['data']: if isinstance(item, dict).
RECURSIVE DictPositionsFrom(_, _)
DictPositionsFrom(el, j) ==
    IF j > Len(el) THEN <<>>
    ELSE (IF IsMap(el[j]) THEN <<j>> ELSE <<>>) \o DictPositionsFrom(el, j + 1)

\* The same loop leaving after the first dict.
DictPositionsFirstOnly(el) ==
    IF DictPositionsFrom(el, 1) = <<>> THEN <<>> ELSE <<DictPositionsFrom(el, 1)[1]>>
DictPositions(el) == DictPositionsFrom(el, 1)

\* How many Records one captured body yields.
Yield(data) ==
    IF IsList(data) THEN Len(DictPositions(data.el))
    ELSE IF IsMap(data) THEN 1 ELSE 0

RECURSIVE TotalYield(_)
TotalYield(responses) ==
    IF responses = <<>> THEN 0
    ELSE TotalYield(SubSeq(responses, 1, Len(responses) - 1))
         + Yield(responses[Len(responses)].data)

\* One response of the loop.  stamps holds the clock reading of every
\* datetime.now() of the whole loop, used holds how many were read before this
\* response.  The dicts are tagged in place: the Record appended to
\* collected_data is the dict held by the captured body.
ProcessOne(variant, name, resp, stamps, used) ==
    IF IsList(resp.data)
    THEN LET pos == DictPositions(resp.data.el)
             tagged(n) == Map(Tag(variant, resp.data.el[pos[n]].kv, name,
                                  stamps[used + n], resp.url))
             el == [j \in 1..Len(resp.data.el) |->
                      IF \E n \in 1..Len(pos) : pos[n] = j
                      THEN tagged(CHOOSE n \in 1..Len(pos) : pos[n] = j)
                      ELSE resp.data.el[j]]
         IN [resp |-> [resp EXCEPT !.data = List(el)],
             records |-> [n \in 1..Len(pos) |-> tagged(n)]]
    ELSE IF IsMap(resp.data)
    THEN LET rec == Map(Tag(variant, resp.data.kv, name, stamps[used + 1], resp.url))
         IN [resp |-> [resp EXCEPT !.data = rec], records |-> <<rec>>]
    ELSE [resp |-> resp, records |-> <<>>]

\* for response in responses: ... (full, lines 141-154; simple, lines 115-125)
RECURSIVE ProcessLoop(_, _, _, _, _, _, _)
ProcessLoop(variant, name, responses, stamps, i, done, collected) ==
    IF i > Len(responses) THEN [responses |-> done, collected |-> collected]
    ELSE LET one == ProcessOne(variant, name, responses[i], stamps, Len(collected))
         IN ProcessLoop(variant, name, responses, stamps, i + 1,
                        Append(done, one.resp), collected \o one.records)

\* The clock readings of n successive datetime.now() calls from reading lo on.
Readings(n, lo, clock) ==
    {s \in [1..n -> {t \in clock : t >= lo}] : \A k \in 1..(n - 1) : s[k] <= s[k + 1]}

\* An HTML table as the page shows it: header cells and rows of cells.
Table(headers, rows) == [headers |-> headers, rows |-> rows]

\* extract_table_data (simple, lines 153-182) on a table that can be read:
\* one dict per row with as many cells as there are headers.
RowDictOf(headers, cells) ==
    DictOf([i \in 1..Len(headers) |-> KV(headers[i], Str(cells[i]))])

RECURSIVE ExtractTableData(_, _)
ExtractTableData(table, i) ==
    IF i > Len(table.rows) THEN <<>>
    ELSE (IF Len(table.rows[i]) = Len(table.headers)
          THEN <<RowDictOf(table.headers, table.rows[i])>> ELSE <<>>)
         \o ExtractTableData(table, i + 1)

-----------------------------------------------------------------------------
(* Inputs of the extractor                                                 *)

MaxResp == 2

\* The readings the clock can give during one run.
Clock == {0, 1}

U_data == <<"/", "d", "a", "t", "a", "/", "u">>

RecTwo == Map(<<KV("id", Num(2))>>)
NotAMap == Str("not-a-map")
ExampleBody == List(<<RecOne, RecTwo, NotAMap>>)

Bodies ==
    {List(<<>>), List(<<RecOne>>), List(<<NotAMap, RecOne>>), ExampleBody, RecTwo, Null}
ExtractUrls == {U_api, U_data}

CapturedEntries(variant) ==
    {Captured(variant, Response(u, 200, CT_json, b, TRUE), 0) : u \in ExtractUrls, b \in Bodies}

UmpireNames == {"Pat Hoberg"}

\* The tables of the page the fallback reads: none, or one with a header row,
\* a full data row and a short one.
PageTables ==
    {<<>>, <<Table(<<"Game", "Acc">>, <<<<"g1", "95">>, <<"g2">>>>)>>}

\* No file written yet.
NoTable == [header |-> <<>>, lines |-> <<>>]

ExtractInit ==
    /\ ext_variant \in Variants
    /\ ext_name \in UmpireNames
    /\ ext_responses \in SeqUpTo(CapturedEntries(ext_variant), MaxResp)
    /\ ext_captured = ext_responses
    /\ ext_tables \in (IF ext_variant = "simple" THEN PageTables ELSE {<<>>})
    /\ ext_start \in (IF ext_variant = "full" THEN {Null, Txt(T_2024_01_01)} ELSE {Null})
    /\ ext_end = Null
    /\ ext_collected = <<>>
    /\ ext_now = 0
    /\ ext_table = NoTable
    /\ ext_pc = "process"

\* The processing loop: every dict of every captured body is tagged and
\* appended, each with its own clock reading.
Process ==
    /\ ext_pc = "process"
    /\ \E stamps \in Readings(TotalYield(ext_responses), ext_now, Clock) :
          LET r == ProcessLoop(ext_variant, ext_name, ext_responses, stamps, 1, <<>>, <<>>)
          IN /\ ext_responses' = r.responses
             /\ ext_collected' = r.collected
             /\ ext_now' = IF stamps = <<>> THEN ext_now ELSE stamps[Len(stamps)]
    /\ ext_pc' = "processed"
    /\ UNCHANGED <<ext_variant, ext_name, ext_captured, ext_tables, ext_start, ext_end, ext_table>>
    /\ UNCHANGED <<flatVars, filterVars, captureVars, writerVars, bulkVars, runVars>>

\* full, lines 157-160: the date filter, when a bound is given, and the return.
FilterStep ==
    /\ ext_pc = "processed" /\ ext_variant = "full"
    /\ \E r \in {IF Truthy(ext_start) \/ Truthy(ext_end)
                 THEN FilterByDateRange("full", ext_collected, ext_start, ext_end)
                 ELSE FilterResult(FALSE, ext_collected, <<>>)} :
          /\ ext_collected' = r.out
          /\ ext_pc' = IF r.raised THEN "raised" ELSE "done"
    /\ UNCHANGED <<ext_variant, ext_name, ext_responses, ext_captured, ext_tables,
                   ext_start, ext_end, ext_now, ext_table>>
    /\ UNCHANGED <<flatVars, filterVars, captureVars, writerVars, bulkVars, runVars>>

\* The dicts extract_table_data returns for the tables of the page that have
\* more than one row, the header row counted (simple, lines 132-137).
RECURSIVE TableDicts(_, _)
TableDicts(tables, i) ==
    IF i > Len(tables) THEN <<>>
    ELSE (IF Len(tables[i].rows) + 1 > 1 THEN ExtractTableData(tables[i], 1) ELSE <<>>)
         \o TableDicts(tables, i + 1)

\* simple, lines 127-151: the visible-content fallback when no JSON Record was
\* collected, each row tagged with its own clock reading, and the return.
Fallback ==
    /\ ext_pc = "processed" /\ ext_variant = "simple"
    /\ LET rows == IF ext_collected = <<>> THEN TableDicts(ext_tables, 1) ELSE <<>>
       IN \E stamps \in Readings(Len(rows), ext_now, Clock) :
             /\ ext_collected' =
                  IF ext_collected = <<>>
                  THEN [n \in 1..Len(rows) |->
                          Map(Tag("simple", rows[n], ext_name, stamps[n], <<>>))]
                  ELSE ext_collected
             /\ ext_now' = IF stamps = <<>> THEN ext_now ELSE stamps[Len(stamps)]
    /\ ext_pc' = "done"
    /\ UNCHANGED <<ext_variant, ext_name, ext_responses, ext_captured, ext_tables,
                   ext_start, ext_end, ext_table>>
    /\ UNCHANGED <<flatVars, filterVars, captureVars, writerVars, bulkVars, runVars>>

ExtractIdle ==
    /\ ext_variant = "full"
    /\ ext_name = "Pat Hoberg"
    /\ ext_responses = <<>>
    /\ ext_captured = <<>>
    /\ ext_tables = <<>>
    /\ ext_start = Null
    /\ ext_end = Null
    /\ ext_collected = <<>>
    /\ ext_now = 0
    /\ ext_table = NoTable
    /\ ext_pc = "idle"

-----------------------------------------------------------------------------
(* save_to_csv: full, lines 209-237; simple, lines 225-257                 *)

\* A cell of the DataFrame whose row had no such key (NaN).
Missing == [t |-> "nan"]
IsNA(v) == v.t \in {"nan", "null"}

\* pd.DataFrame(rows).columns: the keys of the rows in first-seen order.
RECURSIVE AddKeys(_, _, _)
AddKeys(cols, kv, i) ==
    IF i > Len(kv) THEN cols
    ELSE AddKeys(IF \E j \in 1..Len(cols) : cols[j] = kv[i].k THEN cols
                 ELSE Append(cols, kv[i].k),
                 kv, i + 1)

RECURSIVE UnionColumns(_, _)
UnionColumns(rows, i) ==
    IF i = 0 THEN <<>>
    ELSE AddKeys(UnionColumns(rows, i - 1), rows[i].kv, 1)

\* The cells of column c, one per row; NaN where the row has no such key.
ColumnCells(rows, c) ==
    [i \in 1..Len(rows) |-> IF HasKey(rows[i].kv, c) THEN Get(rows[i].kv, c) ELSE Missing]

\* df[col].dtype: a column whose present values are all numbers is numeric
\* (float64 once a value is absent), any other column is object.
Dtype(cells) ==
    IF (\E i \in 1..Len(cells) : ~IsNA(cells[i]))
       /\ (\A i \in 1..Len(cells) : IsNA(cells[i]) \/ cells[i].t = "num")
    THEN (IF \E i \in 1..Len(cells) : IsNA(cells[i]) THEN "float64" ELSE "int64")
    ELSE "object"

\* The text of a string value, whether it is held whole or as characters.
RECURSIVE JoinChars(_, _)
JoinChars(cs, i) == IF i > Len(cs) THEN "" ELSE cs[i] \o JoinChars(cs, i + 1)
TextOf(v) == IF "s" \in DOMAIN v THEN v.s ELSE JoinChars(v.cs, 1)

\* str(v) of a cell value.
PyStr(v) ==
    CASE v.t = "str" -> TextOf(v)
      [] v.t = "num" -> IntStr(v.n)
      [] v.t = "null" -> "None"
      [] v.t = "nan" -> "nan"
      [] OTHER -> PyRepr(v)

\* s.strip() on the strings the rows hold: Padded is the one that has blanks
\* around it.
Padded == " s "
StrStrip(s) == IF s = Padded THEN "s" ELSE s

\* simple, lines 243-246: df[col].astype(str).str.strip() on an object column.
\* na_text tells whether astype(str) turns an absent value into its text (as
\* pandas does below 3.0) or leaves it absent.
CleanCell(variant, dtype, v, na_text) ==
    IF variant = "simple" /\ dtype = "object"
    THEN (IF IsNA(v) /\ ~na_text THEN v ELSE Str(StrStrip(PyStr(v))))
    ELSE v

\* The text to_csv writes for a cell: nothing for an absent value.
CsvText(dtype, v) ==
    IF IsNA(v) THEN ""
    ELSE IF v.t = "num" THEN (IF dtype = "float64" THEN IntStr(v.n) \o ".0" ELSE IntStr(v.n))
    ELSE TextOf(v)

\* The text of the cell of row i in column c.
CellText(variant, rows, c, i, na_text) ==
    LET cells == ColumnCells(rows, c)
    IN CsvText(Dtype(cells), CleanCell(variant, Dtype(cells), cells[i], na_text))

\* df.to_csv(path, index=False): the header row and one line per row.
CsvTable(variant, rows, na_text) ==
    LET cols == UnionColumns(rows, Len(rows))
    IN [header |-> cols,
        lines |-> [i \in 1..Len(rows) |->
                     [j \in 1..Len(cols) |-> CellText(variant, rows, cols[j], i, na_text)]]]

\* full, lines 222-225: flatten every item; the call raises when one does.
FlattenAll(data) == [i \in 1..Len(data) |-> FlattenDict(data[i], "", "_")]
FlattenAllRaises(data) == \E i \in 1..Len(data) : FlattenAll(data)[i].err

\* The rows handed to pd.DataFrame: full, line 228; simple, line 241.
FrameRows(variant, data) ==
    IF variant = "full" THEN [i \in 1..Len(data) |-> Map(FlattenAll(data)[i].row)]
    ELSE data

\* if not data
NoDataNever(data) == FALSE
NoData(data) == data = <<>>

\* The file name when none is given: full, lines 217-219; simple, lines 231-233.
AutoName(variant, t) ==
    IF variant = "full" THEN "umpire_scorecards_" \o IntStr(t) \o ".csv"
    ELSE "umpire_data_" \o IntStr(t) \o ".csv"

\* not (not filename)
NameGiven(filename) == filename.t = "str" /\ filename.s # ""

\* full, line 231; simple, lines 236-238.
OutputDir(variant) == IF variant = "full" THEN "cwd" ELSE "/mnt/user-data/outputs"
OutputPath(variant, filename, t) ==
    [dir |-> OutputDir(variant),
     name |-> IF NameGiven(filename) THEN filename.s ELSE AutoName(variant, t)]

\* Writing a file replaces the one at the same path.
WriteFile(files, path, table) ==
    {f \in files : f.path # path} \cup {[path |-> path, table |-> table]}

-----------------------------------------------------------------------------
(* Inputs of save_to_csv                                                    *)

MaxRows == 3

RowA == Map(<<KV("a", Num(1))>>)
RowB == Map(<<KV("b", Str("s"))>>)
RowBA == Map(<<KV("b", Str(Padded)), KV("a", Num(2))>>)
RowC == Map(<<KV("c", Null), KV("a", Num(1))>>)
RowNested == Map(<<KV("a", Map(<<KV("b", Num(1))>>))>>)
RowMixed == Map(<<KV("a", List(<<Map(<<>>), Null>>))>>)

WriterRows == {RowA, RowB, RowBA, RowC, RowNested, RowMixed}
FileNames == {Null, Str(""), Str("out.csv")}

WriterInit ==
    /\ wr_variant \in Variants
    /\ wr_data \in SeqUpTo(WriterRows, MaxRows)
    /\ wr_filename \in FileNames
    /\ wr_na_text \in (IF wr_variant = "simple" THEN BOOLEAN ELSE {FALSE})
    /\ wr_files = {}
    /\ wr_dirs = {}
    /\ wr_log = <<>>
    /\ wr_ret = Null
    /\ wr_pc = "call"

\* One call of save_to_csv.
SaveToCsv ==
    /\ wr_pc = "call"
    /\ IF NoData(wr_data)
       THEN /\ wr_log' = Append(wr_log, "No data to save")
            /\ wr_ret' = Null
            /\ wr_pc' = "done"
            /\ UNCHANGED <<wr_files, wr_dirs>>
       ELSE IF wr_variant = "full" /\ FlattenAllRaises(wr_data)
       THEN /\ wr_pc' = "raised"
            /\ UNCHANGED <<wr_files, wr_dirs, wr_log, wr_ret>>
       ELSE LET path == OutputPath(wr_variant, wr_filename, 0)
            IN /\ wr_dirs' = IF wr_variant = "simple" THEN wr_dirs \cup {path.dir}
                             ELSE wr_dirs
               /\ wr_files' = WriteFile(wr_files, path,
                                        CsvTable(wr_variant, FrameRows(wr_variant, wr_data),
                                                 wr_na_text))
               /\ wr_log' = Append(wr_log, "saved")
               /\ wr_ret' = Str(path.name)
               /\ wr_pc' = "done"
    /\ UNCHANGED <<wr_variant, wr_data, wr_filename, wr_na_text>>
    /\ UNCHANGED <<flatVars, filterVars, captureVars, extractVars, bulkVars, runVars>>

WriterIdle ==
    /\ wr_variant = "full"
    /\ wr_data = <<>>
    /\ wr_filename = Null
    /\ wr_na_text = FALSE
    /\ wr_files = {}
    /\ wr_dirs = {}
    /\ wr_log = <<>>
    /\ wr_ret = Null
    /\ wr_pc = "idle"

-----------------------------------------------------------------------------
(* From the captured bodies to the file: the processing loop followed by    *)
(* save_to_csv, as the main functions chain them (full, lines 304-311;      *)
(* simple, lines 335-338)                                                   *)

\* Names a caller can pass, the empty one among them.
CallerNames == {"Pat Hoberg", ""}

\* Bodies whose keys meet the provenance keys: at the top level, and through
\* a nested key whose flattened path is a provenance key.
BodyNamed == Map(<<KV("umpire_name", Str("X"))>>)
BodyNestedName ==
    Map(<<KV("umpire_name", Str("old")), KV("umpire", Map(<<KV("name", Str("X"))>>))>>)
BodyNestedStamp == Map(<<KV("scraped", Map(<<KV("at", Null)>>)), KV("id", Num(1))>>)
ProvenanceBodies == {RecOne, BodyNamed, BodyNestedName, BodyNestedStamp, ExampleBody}

ProvenanceInit ==
    /\ ext_variant \in Variants
    /\ ext_name \in CallerNames
    /\ ext_responses \in
          SeqUpTo({Captured(ext_variant, Response(U_api, 200, CT_json, b, TRUE), 0) :
                      b \in ProvenanceBodies}, MaxResp)
    /\ ext_captured = ext_responses
    /\ ext_tables \in (IF ext_variant = "simple" THEN PageTables ELSE {<<>>})
    /\ ext_start = Null
    /\ ext_end = Null
    /\ ext_collected = <<>>
    /\ ext_now = 0
    /\ ext_table = NoTable
    /\ ext_pc = "process"

\* if data: save_to_csv(data, filename)
SaveRecords ==
    /\ ext_pc = "done"
    /\ IF NoData(ext_collected)
       THEN /\ ext_table' = ext_table
            /\ ext_pc' = "saved"
       ELSE IF ext_variant = "full" /\ FlattenAllRaises(ext_collected)
       THEN /\ ext_table' = ext_table
            /\ ext_pc' = "raised"
       ELSE /\ \E na_text \in BOOLEAN :
                 ext_table' = CsvTable(ext_variant, FrameRows(ext_variant, ext_collected),
                                       na_text)
            /\ ext_pc' = "saved"
    /\ UNCHANGED <<ext_variant, ext_name, ext_responses, ext_captured, ext_tables,
                   ext_start, ext_end, ext_collected, ext_now>>
    /\ UNCHANGED <<flatVars, filterVars, captureVars, writerVars, bulkVars, runVars>>

-----------------------------------------------------------------------------
(* The multi-target runs: bulk_scrape (full, lines 274-293) and             *)
(* scrape_multiple_umpires (simple, lines 259-286)                          *)

\* asyncio.sleep(2) of bulk_scrape and asyncio.sleep(3) of scrape_multiple_umpires.
BulkDelay == 2
SimpleDelay == 3
Delay(variant) == IF variant = "full" THEN BulkDelay ELSE SimpleDelay

\* What one visit meets: whether the browser starts, whether page.goto
\* returns, the entries the response handler captured by then, and the tables
\* of the page.
Visit(launch_ok, nav_ok, captured, tables) ==
    [launch_ok |-> launch_ok, nav_ok |-> nav_ok, captured |-> captured, tables |-> tables]

\* The outcome of the call for one target: whether it raised, and the list it
\* returned otherwise.
Outcome(raised, out) == [raised |-> raised, out |-> out]
OutcomeOf(r) == Outcome(r.raised, r.out)

\* The Records the processing loop makes of the captured entries, all stamped
\* with clock reading t.
CollectedFrom(variant, name, captured, t) ==
    ProcessLoop(variant, name, captured, [n \in 1..TotalYield(captured) |-> t],
                1, <<>>, <<>>).collected

\* simple, lines 127-141: the table rows, once no Record was collected.
WithFallback(name, collected, tables, t) ==
    IF collected = <<>>
    THEN [n \in 1..Len(TableDicts(tables, 1)) |->
            Map(Tag("simple", TableDicts(tables, 1)[n], name, t, <<>>))]
    ELSE collected

\* The list handed to the date filter of the run.  Full, lines 136-154: a
\* failure of page.goto is caught inside intercept_network_requests (lines
\* 102-106) and the entries captured so far are processed.  Simple, lines
\* 90-149: a failure of page.goto leaves collected_data empty.
Unfiltered(variant, name, v, t) ==
    IF variant = "full" THEN CollectedFrom("full", name, v.captured, t)
    ELSE IF v.nav_ok
         THEN WithFallback(name, CollectedFrom("simple", name, v.captured, t), v.tables, t)
         ELSE <<>>

\* The try block of one iteration up to all_data.extend: full, line 282
\* (the filter runs inside get_umpire_data_async, lines 157-158); simple,
\* lines 268-271.
TargetOutcome(variant, name, v, start, end, t) ==
    IF ~v.launch_ok THEN Outcome(TRUE, <<>>)
    ELSE IF Truthy(start) \/ Truthy(end)
    THEN OutcomeOf(FilterByDateRange(variant, Unfiltered(variant, name, v, t), start, end))
    ELSE Outcome(FALSE, Unfiltered(variant, name, v, t))

\* Whether the iteration for target i of n sleeps: full, line 286; simple,
\* lines 277-279.  The sleep is inside the try, after all_data.extend.
Sleeps(variant, raised, i, n) ==
    ~raised /\ (variant = "simple" => i < n)

\* except Exception: ... continue
StopAfterError(i, n) == n + 1
NextAfterError(i, n) == i + 1

-----------------------------------------------------------------------------
(* Inputs of the multi-target runs                                          *)

MaxTargets == 3

TargetNames == {"Pat Hoberg", "Joe West"}

\* The visits: the browser does not start; or the navigation returns or
\* fails, with nothing captured or with one JSON body captured before that.
Visits(variant) ==
    {Visit(FALSE, FALSE, <<>>, <<>>)}
    \cup {Visit(TRUE, ok, c, <<>>) :
            ok \in BOOLEAN,
            c \in {<<>>, <<Captured(variant, Response(U_api, 200, CT_json, RecOne, TRUE), 0)>>}}
    \cup (IF variant = "simple"
          THEN {Visit(TRUE, TRUE, <<>>, <<Table(<<"Game">>, <<<<"g1">>>>)>>)}
          ELSE {})

BulkInit ==
    /\ bulk_variant \in Variants
    /\ bulk_names \in SeqUpTo(TargetNames, MaxTargets)
    /\ bulk_start = Null
    /\ bulk_end \in {Null, Txt(T_junk)}
    /\ bulk_i = 1
    /\ bulk_all = <<>>
    /\ bulk_errors = 0
    /\ bulk_clock = 0
    /\ bulk_visits = <<>>
    /\ bulk_pc = "loop"

\* One iteration of the loop: the visit of target bulk_i, all_data.extend and
\* the sleep when the try block gets that far, the handler otherwise.
VisitTarget ==
    /\ bulk_pc = "loop"
    /\ bulk_i <= Len(bulk_names)
    /\ \E v \in Visits(bulk_variant) :
          \E o \in {TargetOutcome(bulk_variant, bulk_names[bulk_i], v, bulk_start, bulk_end,
                                  bulk_clock)} :
             LET slept == Sleeps(bulk_variant, o.raised, bulk_i, Len(bulk_names))
             IN /\ bulk_all' = IF o.raised THEN bulk_all ELSE bulk_all \o o.out
                /\ bulk_errors' = IF o.raised THEN bulk_errors + 1 ELSE bulk_errors
                /\ bulk_clock' = IF slept THEN bulk_clock + Delay(bulk_variant) ELSE bulk_clock
                /\ bulk_i' = IF o.raised THEN NextAfterError(bulk_i, Len(bulk_names))
                             ELSE bulk_i + 1
                /\ bulk_visits' = Append(bulk_visits,
                                         [target |-> bulk_i, name |-> bulk_names[bulk_i],
                                          visit |-> v, outcome |-> o,
                                          began |-> bulk_clock, ended |-> bulk_clock])
    /\ UNCHANGED <<bulk_variant, bulk_names, bulk_start, bulk_end, bulk_pc>>
    /\ UNCHANGED <<flatVars, filterVars, captureVars, extractVars, writerVars, runVars>>

\* return all_data
BulkReturn ==
    /\ bulk_pc = "loop"
    /\ bulk_i > Len(bulk_names)
    /\ bulk_pc' = "returned"
    /\ UNCHANGED <<bulk_variant, bulk_names, bulk_start, bulk_end, bulk_i, bulk_all, bulk_errors,
                   bulk_clock, bulk_visits>>
    /\ UNCHANGED <<flatVars, filterVars, captureVars, extractVars, writerVars, runVars>>

BulkIdle ==
    /\ bulk_variant = "full"
    /\ bulk_names = <<>>
    /\ bulk_start = Null
    /\ bulk_end = Null
    /\ bulk_i = 1
    /\ bulk_all = <<>>
    /\ bulk_errors = 0
    /\ bulk_clock = 0
    /\ bulk_visits = <<>>
    /\ bulk_pc = "idle"

-----------------------------------------------------------------------------
(* One multi-target run step by step: the browser session of each target,  *)
(* the response handlers interleaved with the awaits of the scrape call,   *)
(* and a user interrupt.  bulk_scrape with intercept_network_requests and  *)
(* get_umpire_data_async (full, lines 56-110, 129-160, 274-293);           *)
(* scrape_multiple_umpires with scrape_umpire_page (simple, lines 47-151,  *)
(* 259-286).  The run is called without dates.                             *)

MaxSessions == 2
MaxArrive == 1

\* The responses a page of the run shows: a JSON body that parses, one whose
\* response.json() raises, and an HTML document.
RunResponses ==
    {Response(U_api, 200, CT_json, RecOne, TRUE),
     Response(U_api, 200, CT_json, Null, FALSE),
     Response(U_img, 200, CT_html, Null, FALSE)}

\* The tables the fallback finds on the page.
RunTables == {<<>>, <<Table(<<"Game">>, <<<<"g1">>>>)>>}

\* The awaits of the scrape call after the response handler was registered
\* (full, lines 100-108; simple, lines 85-149).
HandlerPoints == {"goto", "settle", "clicks", "fallback", "close"}

\* The awaits of the main flow.
AwaitPoints == {"launch", "context"} \cup HandlerPoints \cup {"sleep"}

\* Leaving `async with async_playwright()` (full, line 63; simple, line 56):
\* the driver is stopped, and a browser of target i still open goes with it.
ExitPlaywrightKept(open, i) == open
ExitPlaywright(open, i) == open \ {i}

\* Whether an exception of kind BaseException raised at the await of phase pc
\* is swallowed: the bare `except: pass` of the load-more block (simple, lines
\* 94-112).  Every other handler on the way is `except Exception`.
Swallowed(variant, pc) == variant = "simple" /\ pc = "clicks"

RunInit ==
    /\ run_variant \in Variants
    /\ run_names \in {[k \in 1..n |-> "Pat Hoberg"] : n \in 1..MaxSessions}
    /\ run_i = 1
    /\ run_pc = "loop"
    /\ run_open = {}
    /\ run_opened = 0
    /\ run_page = FALSE
    /\ run_responses = <<>>
    /\ run_pending = <<>>
    /\ run_arrived = 0
    /\ run_collected = <<>>
    /\ run_all = <<>>
    /\ run_errors = 0
    /\ run_interrupted = FALSE
    /\ run_result = "none"

\* The exception leaves the scrape call and reaches `except Exception:
\* ... continue` of the loop (full, lines 289-291; simple, lines 281-284).
TargetRaises ==
    /\ run_errors' = run_errors + 1
    /\ run_result' = "raised"
    /\ run_i' = NextAfterError(run_i, Len(run_names))
    /\ run_pc' = "loop"
    /\ UNCHANGED <<run_collected, run_all>>

\* for umpire_name in umpire_names: the call for the next target begins.
StartTarget ==
    /\ run_pc = "loop" /\ run_i <= Len(run_names)
    /\ run_pc' = "launch"
    /\ run_responses' = <<>>
    /\ run_pending' = <<>>
    /\ run_arrived' = 0
    /\ run_collected' = <<>>
    /\ run_result' = "none"
    /\ UNCHANGED <<run_variant, run_names, run_i, run_open, run_opened, run_all, run_errors,
                   run_interrupted>>
    /\ run_page' = FALSE
    /\ UNCHANGED <<flatVars, filterVars, captureVars, extractVars, writerVars, bulkVars>>

\* return all_data
RunReturn ==
    /\ run_pc = "loop" /\ run_i > Len(run_names)
    /\ run_pc' = "returned"
    /\ UNCHANGED <<run_variant, run_names, run_i, run_open, run_opened, run_responses,
                   run_pending, run_arrived, run_collected, run_all, run_errors,
                   run_interrupted, run_result>>
    /\ UNCHANGED run_page
    /\ UNCHANGED <<flatVars, filterVars, captureVars, extractVars, writerVars, bulkVars>>

\* browser = await p.chromium.launch(...) (full, line 64; simple, lines 57-60,
\* before the try of line 62).
Launch ==
    /\ run_pc = "launch"
    /\ \E ok \in BOOLEAN :
          IF ok
          THEN /\ run_open' = run_open \cup {run_i}
               /\ run_opened' = run_opened + 1
               /\ run_pc' = "context"
               /\ UNCHANGED <<run_i, run_collected, run_all, run_errors, run_result>>
          ELSE /\ TargetRaises
               /\ run_open' = ExitPlaywright(run_open, run_i)
               /\ UNCHANGED run_opened
    /\ UNCHANGED <<run_variant, run_names, run_responses, run_pending, run_arrived,
                   run_interrupted>>
    /\ UNCHANGED run_page
    /\ UNCHANGED <<flatVars, filterVars, captureVars, extractVars, writerVars, bulkVars>>

\* new_context, new_page and page.on (full, lines 65-100; simple, lines
\* 63-85): the page exists and its response handler is registered.  A
\* failure leaves the full scraper's call through the playwright block; the
\* simple scraper catches it at line 145 and goes on to the finally.
NewContext ==
    /\ run_pc = "context"
    /\ \E ok \in BOOLEAN :
          IF ok
          THEN /\ run_pc' = "goto"
               /\ run_page' = TRUE
               /\ UNCHANGED <<run_i, run_open, run_collected, run_all, run_errors, run_result>>
          ELSE IF run_variant = "full"
          THEN /\ TargetRaises
               /\ run_open' = ExitPlaywright(run_open, run_i)
               /\ UNCHANGED run_page
          ELSE /\ run_pc' = "close"
               /\ UNCHANGED <<run_i, run_open, run_page, run_collected, run_all, run_errors,
                              run_result>>
    /\ UNCHANGED <<run_variant, run_names, run_opened, run_responses, run_pending, run_arrived,
                   run_interrupted>>
    /\ UNCHANGED <<flatVars, filterVars, captureVars, extractVars, writerVars, bulkVars>>

\* await page.goto(...) (full, lines 102-106; simple, lines 88 and 145-146):
\* a failure is caught in both, and both go on to close the browser.
Goto ==
    /\ run_pc = "goto"
    /\ \E ok \in BOOLEAN : run_pc' = IF ok THEN "settle" ELSE "close"
    /\ UNCHANGED <<run_variant, run_names, run_i, run_open, run_opened, run_responses,
                   run_pending, run_arrived, run_collected, run_all, run_errors,
                   run_interrupted, run_result>>
    /\ UNCHANGED run_page
    /\ UNCHANGED <<flatVars, filterVars, captureVars, extractVars, writerVars, bulkVars>>

\* await page.wait_for_timeout(5000) (full, line 104; simple, line 91)
Settle ==
    /\ run_pc = "settle"
    /\ run_pc' = IF run_variant = "full" THEN "close" ELSE "clicks"
    /\ UNCHANGED <<run_variant, run_names, run_i, run_open, run_opened, run_responses,
                   run_pending, run_arrived, run_collected, run_all, run_errors,
                   run_interrupted, run_result>>
    /\ UNCHANGED run_page
    /\ UNCHANGED <<flatVars, filterVars, captureVars, extractVars, writerVars, bulkVars>>

\* The load-more block is left, by its end or by its `except: pass`, and the
\* processing loop runs without an await (simple, lines 94-128).
AfterClicks ==
    LET done == ProcessLoop("simple", run_names[run_i], run_responses,
                            [n \in 1..TotalYield(run_responses) |-> 0], 1, <<>>, <<>>)
    IN /\ run_responses' = done.responses
       /\ run_collected' = done.collected
       /\ run_pc' = IF done.collected = <<>> THEN "fallback" ELSE "close"

\* The awaits of the load-more block (simple, lines 94-112).
Clicks ==
    /\ run_pc = "clicks"
    /\ AfterClicks
    /\ UNCHANGED <<run_variant, run_names, run_i, run_open, run_opened, run_pending,
                   run_arrived, run_all, run_errors, run_interrupted, run_result>>
    /\ UNCHANGED run_page
    /\ UNCHANGED <<flatVars, filterVars, captureVars, extractVars, writerVars, bulkVars>>

\* The visible-content fallback (simple, lines 128-141): its awaits return
\* the tables of the page, or one of them raises and line 145 catches it.
TableFallback ==
    /\ run_pc = "fallback"
    /\ \E ok \in BOOLEAN, tables \in RunTables :
          run_collected' = IF ok THEN WithFallback(run_names[run_i], run_collected, tables, 0)
                           ELSE run_collected
    /\ run_pc' = "close"
    /\ UNCHANGED <<run_variant, run_names, run_i, run_open, run_opened, run_responses,
                   run_pending, run_arrived, run_all, run_errors, run_interrupted, run_result>>
    /\ UNCHANGED run_page
    /\ UNCHANGED <<flatVars, filterVars, captureVars, extractVars, writerVars, bulkVars>>

\* await browser.close() returns (full, line 108; simple, line 149, in the
\* finally): the handlers still waiting for a body get none.  Then, without
\* an await: the playwright block is left, the full scraper runs its
\* processing loop (lines 141-154), the call returns, all_data.extend, and
\* the sleep begins (full, line 287; simple, lines 277-279).
CloseBrowser ==
    /\ run_pc = "close"
    /\ run_open' = ExitPlaywright(run_open \ {run_i}, run_i)
    /\ run_pending' = <<>>
    /\ \E done \in {IF run_variant = "full"
                    THEN ProcessLoop("full", run_names[run_i], run_responses,
                                     [n \in 1..TotalYield(run_responses) |-> 0], 1, <<>>, <<>>)
                    ELSE [responses |-> run_responses, collected |-> run_collected]} :
          /\ run_responses' = done.responses
          /\ run_collected' = done.collected
          /\ run_all' = run_all \o done.collected
    /\ run_result' = "returned"
    /\ IF Sleeps(run_variant, FALSE, run_i, Len(run_names))
       THEN run_pc' = "sleep" /\ run_i' = run_i
       ELSE run_pc' = "loop" /\ run_i' = run_i + 1
    /\ UNCHANGED <<run_variant, run_names, run_opened, run_arrived, run_errors, run_interrupted>>
    /\ run_page' = FALSE
    /\ UNCHANGED <<flatVars, filterVars, captureVars, extractVars, writerVars, bulkVars>>

\* await asyncio.sleep(...) returns.
Sleep ==
    /\ run_pc = "sleep"
    /\ run_pc' = "loop"
    /\ run_i' = run_i + 1
    /\ UNCHANGED <<run_variant, run_names, run_open, run_opened, run_responses, run_pending,
                   run_arrived, run_collected, run_all, run_errors, run_interrupted, run_result>>
    /\ UNCHANGED run_page
    /\ UNCHANGED <<flatVars, filterVars, captureVars, extractVars, writerVars, bulkVars>>

\* The page emits a response and handle_response runs up to its await of
\* response.json() (full, lines 83-88; simple, lines 73-76).
HandlerStarts ==
    /\ run_pc \in HandlerPoints /\ run_page
    /\ run_arrived < MaxArrive
    /\ \E r \in RunResponses :
          run_pending' = IF ReadsBody(run_variant, r) THEN Append(run_pending, r)
                         ELSE run_pending
    /\ run_arrived' = run_arrived + 1
    /\ UNCHANGED <<run_variant, run_names, run_i, run_pc, run_open, run_opened, run_responses,
                   run_collected, run_all, run_errors, run_interrupted, run_result>>
    /\ UNCHANGED run_page
    /\ UNCHANGED <<flatVars, filterVars, captureVars, extractVars, writerVars, bulkVars>>

\* response.json() returns or raises in one handler (full, lines 88-97;
\* simple, lines 76-83).
HandlerCompletes ==
    /\ run_pc \in HandlerPoints /\ run_page
    /\ \E k \in 1..Len(run_pending) :
          /\ run_pending' = RemoveAt(run_pending, k)
          /\ run_responses' = IF run_pending[k].json_ok
                              THEN Append(run_responses,
                                          Captured(run_variant, run_pending[k], 0))
                              ELSE run_responses
    /\ UNCHANGED <<run_variant, run_names, run_i, run_pc, run_open, run_opened, run_arrived,
                   run_collected, run_all, run_errors, run_interrupted, run_result>>
    /\ UNCHANGED run_page
    /\ UNCHANGED <<flatVars, filterVars, captureVars, extractVars, writerVars, bulkVars>>

\* The user interrupts once, while the main flow is at an await: the
\* exception is raised there.  It is not an Exception, so `except Exception`
\* (full, lines 105 and 289; simple, lines 145 and 281) lets it through, the
\* finally of the simple scraper closes the browser, the playwright block is
\* left, and the run ends in the caller of asyncio.run.  The bare except of
\* the load-more block takes it and the call goes on.
Interrupt ==
    /\ ~run_interrupted
    /\ run_pc \in AwaitPoints
    /\ run_interrupted' = TRUE
    /\ IF Swallowed(run_variant, run_pc)
       THEN /\ AfterClicks
            /\ UNCHANGED <<run_i, run_open, run_page, run_pending, run_result>>
       ELSE /\ run_pc' = "interrupted"
            /\ run_open' = ExitPlaywright(IF run_variant = "simple" /\ run_pc # "launch"
                                          THEN run_open \ {run_i} ELSE run_open, run_i)
            /\ run_page' = FALSE
            /\ run_pending' = <<>>
            /\ run_result' = IF run_pc = "sleep" THEN run_result ELSE "raised"
            /\ UNCHANGED <<run_i, run_responses, run_collected>>
    /\ UNCHANGED <<run_variant, run_names, run_opened, run_arrived, run_all, run_errors>>
    /\ UNCHANGED <<flatVars, filterVars, captureVars, extractVars, writerVars, bulkVars>>

RunIdle ==
    /\ run_variant = "full"
    /\ run_names = <<>>
    /\ run_i = 1
    /\ run_pc = "idle"
    /\ run_open = {}
    /\ run_opened = 0
    /\ run_page = FALSE
    /\ run_responses = <<>>
    /\ run_pending = <<>>
    /\ run_arrived = 0
    /\ run_collected = <<>>
    /\ run_all = <<>>
    /\ run_errors = 0
    /\ run_interrupted = FALSE
    /\ run_result = "none"

-----------------------------------------------------------------------------
(* Specifications, one per component                                       *)

InitFlatten == FlatInit /\ FilterIdle /\ CaptureIdle /\ ExtractIdle /\ WriterIdle /\ BulkIdle
    /\ RunIdle
NextFlatten == FlattenCall
SpecFlatten == InitFlatten /\ [][NextFlatten]_vars

InitFilter == FilterInit /\ FlatIdle /\ CaptureIdle /\ ExtractIdle /\ WriterIdle /\ BulkIdle
    /\ RunIdle
NextFilter == FilterCall
SpecFilter == InitFilter /\ [][NextFilter]_vars

InitCapture == CaptureInit /\ FlatIdle /\ FilterIdle /\ ExtractIdle /\ WriterIdle /\ BulkIdle
    /\ RunIdle
NextCapture == ResponseArrives \/ JsonCompletes \/ CloseSession
SpecCapture == InitCapture /\ [][NextCapture]_vars

InitExtract == ExtractInit /\ FlatIdle /\ FilterIdle /\ CaptureIdle /\ WriterIdle /\ BulkIdle
    /\ RunIdle
NextExtract == Process \/ FilterStep \/ Fallback
SpecExtract == InitExtract /\ [][NextExtract]_vars

InitWriter == WriterInit /\ FlatIdle /\ FilterIdle /\ CaptureIdle /\ ExtractIdle /\ BulkIdle
    /\ RunIdle
NextWriter == SaveToCsv
SpecWriter == InitWriter /\ [][NextWriter]_vars

InitBulk == BulkInit /\ FlatIdle /\ FilterIdle /\ CaptureIdle /\ ExtractIdle /\ WriterIdle
    /\ RunIdle
NextBulk == VisitTarget \/ BulkReturn
SpecBulk == InitBulk /\ [][NextBulk]_vars

InitProvenance ==
    ProvenanceInit /\ FlatIdle /\ FilterIdle /\ CaptureIdle /\ WriterIdle /\ BulkIdle /\ RunIdle
NextProvenance == Process \/ FilterStep \/ Fallback \/ SaveRecords
SpecProvenance == InitProvenance /\ [][NextProvenance]_vars

InitRun ==
    RunInit /\ FlatIdle /\ FilterIdle /\ CaptureIdle /\ ExtractIdle /\ WriterIdle /\ BulkIdle
NextRun ==
    \/ StartTarget \/ RunReturn \/ Launch \/ NewContext \/ Goto \/ Settle \/ Clicks
    \/ TableFallback \/ CloseBrowser \/ Sleep \/ HandlerStarts \/ HandlerCompletes
    \/ Interrupt
SpecRun == InitRun /\ [][NextRun]_vars

-----------------------------------------------------------------------------
(* Claims about flatten_dict                                               *)

FlatDone == flat_pc = "done" /\ ~flat_res.err
IsContainer(v) == v.t \in {"map", "list"}

\* C2: whenever flatten_dict returns a FlatRow, for any nesting of mappings and
\* sequences in the Record and any separator, no value of the FlatRow is a
\* mapping or a sequence.
C2_NoNestedContainers ==
    FlatDone => \A i \in 1..Len(flat_res.row) : ~IsContainer(flat_res.row[i].v)

\* C2 witness: a FlatRow was returned for a Record that holds a mapping which
\* holds a non-empty sequence, next to a second key.
C2_Witness ==
    /\ FlatDone
    /\ Len(flat_d.kv) = 2
    /\ \E i \in 1..2 :
          /\ IsMap(flat_d.kv[i].v)
          /\ flat_d.kv[i].v.kv # <<>>
          /\ IsList(flat_d.kv[i].v.kv[1].v)
          /\ Len(flat_d.kv[i].v.kv[1].v.el) = MaxLen
    /\ Len(flat_res.row) > 0

\* The naming rule as C3 states it: the leaves of a value with the key each is
\* stored under (a child of a mapping under path + sep + childKey, element i
\* of a sequence of mappings under path + sep + i).
RECURSIVE NamedLeaves(_, _, _)
NamedLeaves(v, path, sep) ==
    CASE IsMap(v) ->
           UNION {NamedLeaves(v.kv[i].v,
                              IF path # "" THEN path \o sep \o v.kv[i].k ELSE v.kv[i].k,
                              sep) : i \in 1..Len(v.kv)}
      [] IsList(v) /\ FirstIsDict(v.el) ->
           UNION {NamedLeaves(v.el[i], path \o sep \o IntStr(i - 1), sep) : i \in 1..Len(v.el)}
      [] IsList(v) /\ ~FirstIsDict(v.el) -> {<<path, Str(PyRepr(v))>>}
      [] OTHER -> {<<path, v>>}

RowPairs(row) == {<<row[i].k, row[i].v>> : i \in 1..Len(row)}
DistinctPaths(S) == \A p, q \in S : p[1] = q[1] => p = q

ExampleNestedMap == Map(<<KV("a", Map(<<KV("b", Num(1))>>))>>)
ExampleListOfMaps ==
    Map(<<KV("a", List(<<Map(<<KV("x", Num(1))>>), Map(<<KV("x", Num(2))>>)>>))>>)

\* C3 (as claimed): for every separator, each leaf is stored under the key the
\* naming rule gives it (no two leaves sharing a key), and with the default
\* separator {"a": {"b": 1}} yields {"a_b": 1} and
\* {"a": [{"x": 1}, {"x": 2}]} yields {"a_0_x": 1, "a_1_x": 2}.
C3_KeyNaming ==
    FlatDone =>
        /\ DistinctPaths(NamedLeaves(flat_d, "", flat_sep))
              => RowPairs(flat_res.row) = NamedLeaves(flat_d, "", flat_sep)
        /\ flat_sep = "_" /\ flat_d = ExampleNestedMap
              => flat_res.row = <<KV("a_b", Num(1))>>
        /\ flat_sep = "_" /\ flat_d = ExampleListOfMaps
              => flat_res.row = <<KV("a_0_x", Num(1)), KV("a_1_x", Num(2))>>

\* C4 (as claimed): flatten_dict returns a FlatRow for every Record of JSON
\* values and never raises; a sequence that is not recursed into is stored as
\* one string under its path.
C4_FlattenTotal ==
    flat_pc = "done" =>
        /\ ~flat_res.err
        /\ \A i \in 1..Len(flat_d.kv) :
              IsList(flat_d.kv[i].v) /\ ~FirstIsDict(flat_d.kv[i].v.el) /\ Len(flat_d.kv) = 1
                  => flat_res.row = <<KV(flat_d.kv[i].k, Str(PyRepr(flat_d.kv[i].v)))>>

-----------------------------------------------------------------------------
(* Claims about filter_by_date_range                                       *)

BoundGiven == Truthy(flt_start) \/ Truthy(flt_end)
BoundsParse ==
    /\ ParseBound(flt_variant, flt_start, DtMin).ok
    /\ ParseBound(flt_variant, flt_end, DtMax).ok

\* The calendar date of a datetime.
DateOnly(dt) == Dt(dt.y, dt.mo, dt.d, 0, FALSE)

\* start <= d <= end by calendar date, both bounds inclusive, a missing bound
\* unbounded.
InClaimedRange(item) ==
    LET r == ResolveDate(flt_variant, item)
        s == ParseBound(flt_variant, flt_start, DtMin).dt
        e == ParseBound(flt_variant, flt_end, DtMax).dt
    IN r.ok /\ DtLeq(DateOnly(s), DateOnly(r.dt)) /\ DtLeq(DateOnly(r.dt), DateOnly(e))

\* C5 (as claimed): with a bound given, the call returns exactly the Records
\* whose resolved date d satisfies start <= d <= end, both bounds inclusive; a
\* Record dated on the end date is included also when its date field carries a
\* time of day.
C5_InclusiveRange ==
    flt_pc = "done" /\ BoundGiven /\ BoundsParse =>
        /\ ~flt_res.raised
        /\ flt_res.out = SelectSeq(flt_data, InClaimedRange)

\* C6: with start and end both absent or empty the call returns the input
\* sequence unchanged: same Records, same order, same count.
C6_NoBoundsIdentity ==
    flt_pc = "done" /\ ~Truthy(flt_start) /\ ~Truthy(flt_end) =>
        ~flt_res.raised /\ flt_res.out = flt_data

\* C6 witness: a call with an empty start and no end returned two different
\* Records, the first of them without any date field.
C6_Witness ==
    /\ flt_pc = "done"
    /\ flt_start = Txt(T_empty) /\ flt_end = Null
    /\ Len(flt_data) = MaxRecs
    /\ flt_data[1] = Map(<<KV("id", Num(1))>>)
    /\ flt_data[MaxRecs] # flt_data[1]
    /\ flt_res.out = flt_data

\* No candidate date field of the item is present with a value that parses.
Undated(variant, item) ==
    \A j \in 1..Len(DateFields(variant)) : ~TryField(variant, item, DateFields(variant)[j]).ok

\* C7 (as claimed): whenever at least one bound is given, no undated Record is
\* in the output.
C7_UndatedNeverReturned ==
    flt_pc = "done" /\ BoundGiven =>
        \A i \in 1..Len(flt_res.out) : ~Undated(flt_variant, flt_res.out[i])

\* C7 (amended): whenever at least one bound is given and every given bound
\* parses, no undated Record is in the output, and if the call raises it does
\* so while processing a Record that has a resolved date.
C7_UndatedExcluded ==
    flt_pc = "done" /\ BoundGiven /\ BoundsParse =>
        /\ \A i \in 1..Len(flt_res.out) : ~Undated(flt_variant, flt_res.out[i])
        /\ flt_res.raised =>
              flt_res.dates # <<>> /\ flt_res.dates[Len(flt_res.dates)].ok

\* C7 witness: a filtered call over an undated and a dated Record returned
\* only the dated one.
C7_Witness ==
    /\ flt_pc = "done" /\ BoundGiven /\ BoundsParse
    /\ Len(flt_data) = MaxRecs
    /\ Undated(flt_variant, flt_data[1])
    /\ HasKey(flt_data[1].kv, "date")
    /\ ~flt_res.raised
    /\ flt_res.out = <<flt_data[MaxRecs]>>

\* The candidate fields of the item that are present with a value that parses.
ParsingFields(variant, item) ==
    {j \in 1..Len(DateFields(variant)) : TryField(variant, item, DateFields(variant)[j]).ok}

\* C8: the resolved date of every Record the filter examined is the parsed
\* value of the first candidate field, in the fixed order, that is present and
\* parses; fields that do not parse are passed over and later fields never
\* override an earlier one.
C8_FirstParseableWins ==
    flt_pc = "done" =>
        \A i \in 1..Len(flt_res.dates) :
            LET cand == ParsingFields(flt_variant, flt_data[i])
                first == CHOOSE j \in cand : \A k \in cand : j <= k
            IN flt_res.dates[i] =
                 IF cand = {} THEN NoDate
                 ELSE TryField(flt_variant, flt_data[i], DateFields(flt_variant)[first])

\* C8 witness: a Record whose "date" (2023-12-31) and "game_date" (2024-06-15)
\* both parse was filtered out of the 2024 range by its "date", and a Record
\* whose "date" does not parse was kept by its "game_date".
C8_Witness ==
    /\ flt_pc = "done"
    /\ flt_start = Txt(T_2024_01_01) /\ flt_end = Txt(T_2024_12_31)
    /\ Len(flt_data) = MaxRecs
    /\ flt_data[1] = Map(<<KV("id", Num(1)), KV("game_date", Txt(T_2024_06_15)),
                           KV("date", Txt(T_2023_12_31))>>)
    /\ flt_data[MaxRecs] = Map(<<KV("id", Num(1)), KV("game_date", Txt(T_2024_06_15)),
                                 KV("date", Txt(T_junk))>>)
    /\ Len(flt_res.dates) = MaxRecs
    /\ flt_res.out = <<flt_data[MaxRecs]>>

-----------------------------------------------------------------------------
(* Claims about the processing loops                                       *)

Processed == ext_pc = "processed"

ProvenanceKeys == {"umpire_name", "scraped_at", "scraped_timestamp", "source_url"}
NotProvenance(p) == p.k \notin ProvenanceKeys

\* A Record without its provenance fields.
Content(rec) == Map(SelectSeq(rec.kv, NotProvenance))

\* The mapping elements one captured body holds, in element order.
MappingElements(data) ==
    IF IsList(data) THEN SelectSeq(data.el, IsMap)
    ELSE IF IsMap(data) THEN <<data>>
    ELSE <<>>

\* The mapping elements of the first i captured bodies, in order.
RECURSIVE ExpectedElements(_, _)
ExpectedElements(entries, i) ==
    IF i = 0 THEN <<>>
    ELSE ExpectedElements(entries, i - 1) \o MappingElements(entries[i].data)

\* For each of those elements, the index of the response it came from.
RECURSIVE Origins(_, _)
Origins(entries, i) ==
    IF i = 0 THEN <<>>
    ELSE Origins(entries, i - 1)
         \o [n \in 1..Len(MappingElements(entries[i].data)) |-> i]

\* C1: once the processing loop has run, the Records collected are exactly the
\* mapping elements of the captured bodies, one Record per mapping element of a
\* sequence body, one for a mapping body, none for any other body, in response
\* order and, within a response, in element order.
C1_ExtractorCount ==
    Processed =>
        LET expected == ExpectedElements(ext_captured, Len(ext_captured))
        IN /\ Len(ext_collected) = Len(expected)
           /\ \A k \in 1..Len(expected) : Content(ext_collected[k]) = expected[k]

C1_Witness ==
    /\ Processed
    /\ Len(ext_captured) = 2
    /\ ext_captured[1].data = ExampleBody
    /\ ext_captured[2].data = Null
    /\ Len(ext_collected) = 2
    /\ Content(ext_collected[1]) = RecOne
    /\ Content(ext_collected[2]) = RecTwo

TimestampKeys == {"scraped_at", "scraped_timestamp"}
CapturedAt(rec) == Get(rec.kv, CHOOSE k \in TimestampKeys : HasKey(rec.kv, k))

\* C10: once the processing loop has run, every Record carries the umpire name
\* the caller gave, the URL of the response it came from and a capture
\* timestamp, and Records that came from one response carry the same values in
\* all three.
C10_Provenance ==
    Processed =>
        LET origin == Origins(ext_captured, Len(ext_captured))
        IN /\ \A k \in 1..Len(ext_collected) :
                 /\ HasKey(ext_collected[k].kv, "umpire_name")
                 /\ Get(ext_collected[k].kv, "umpire_name") = Str(ext_name)
                 /\ HasKey(ext_collected[k].kv, "source_url")
                 /\ Get(ext_collected[k].kv, "source_url") = Txt(ext_captured[origin[k]].url)
                 /\ \E key \in TimestampKeys : HasKey(ext_collected[k].kv, key)
           /\ \A k, l \in 1..Len(ext_collected) :
                 origin[k] = origin[l] => CapturedAt(ext_collected[k]) = CapturedAt(ext_collected[l])

-----------------------------------------------------------------------------
(* Claims about the response handlers                                      *)

SuccessStatus(status) == status \in 200..299

\* C9: in each of the three scripts, every entry of the captured list comes
\* from a response whose status is a success status and whose content type
\* contains "json"; a 404 response and a text/html response are never in the
\* list.
C9_OnlySuccessfulJson ==
    \A i \in 1..Len(cap_list) :
        /\ SuccessStatus(cap_src[i].status)
        /\ Contains(K_json, Lower(cap_src[i].ctype))
        /\ cap_src[i].status # 404
        /\ cap_src[i].ctype # CT_html

\* C11: once the processing loop has run, every captured body holds exactly
\* the keys and values it had when it was captured.
C11_InputUnchanged ==
    Processed => ext_responses = ext_captured

-----------------------------------------------------------------------------
(* Claims about save_to_csv                                                 *)

Returned == wr_pc \in {"done", "raised"}

\* A row whose values are all scalars or null.
IsFlatRow(r) == \A i \in 1..Len(r.kv) : ~IsContainer(r.kv[i].v)
AllFlat(data) == \A i \in 1..Len(data) : IsFlatRow(data[i])

\* Where key c is first seen: the first row that has it, and its place there.
FirstRow(data, c) == CHOOSE i \in 1..Len(data) :
    HasKey(data[i].kv, c) /\ \A h \in 1..(i - 1) : ~HasKey(data[h].kv, c)
PlaceIn(r, c) == CHOOSE p \in 1..Len(r.kv) : r.kv[p].k = c
SeenBefore(data, c, d) ==
    \/ FirstRow(data, c) < FirstRow(data, d)
    \/ /\ FirstRow(data, c) = FirstRow(data, d)
       /\ PlaceIn(data[FirstRow(data, c)], c) < PlaceIn(data[FirstRow(data, d)], d)

AllKeys(data) == UNION {Keys(data[i].kv) : i \in 1..Len(data)}

\* C12: when save_to_csv is given a non-empty sequence of flat rows, it writes
\* one table whose header holds every key of the rows once, in first-seen
\* order, with one line per row and an empty cell wherever the row had no
\* such key.
C12_TableShape ==
    (Returned /\ wr_data # <<>> /\ AllFlat(wr_data)) =>
        /\ wr_pc = "done"
        /\ Cardinality(wr_files) = 1
        /\ \A f \in wr_files :
              /\ {f.table.header[j] : j \in 1..Len(f.table.header)} = AllKeys(wr_data)
              /\ \A i, j \in 1..Len(f.table.header) :
                    i < j => SeenBefore(wr_data, f.table.header[i], f.table.header[j])
              /\ Len(f.table.lines) = Len(wr_data)
              /\ \A i \in 1..Len(wr_data) :
                    /\ Len(f.table.lines[i]) = Len(f.table.header)
                    /\ \A j \in 1..Len(f.table.header) :
                          ~HasKey(wr_data[i].kv, f.table.header[j]) => f.table.lines[i][j] = ""

\* C13: save_to_csv called with an empty sequence returns None without
\* raising, having written no file and created no directory, and having
\* logged "No data to save" and nothing else.
C13_EmptyInput ==
    (wr_pc # "call" /\ wr_pc # "idle" /\ wr_data = <<>>) =>
        /\ wr_pc = "done"
        /\ wr_files = {}
        /\ wr_dirs = {}
        /\ wr_log = <<"No data to save">>
        /\ wr_ret = Null

C13_Witness ==
    /\ wr_pc = "done"
    /\ wr_variant = "simple"
    /\ wr_data = <<>>
    /\ wr_filename = Str("out.csv")
    /\ wr_log # <<>>

-----------------------------------------------------------------------------
(* Further claims about flatten_dict                                        *)

\* C14: flatten_dict returns a mapping of scalars and nulls as it is, key for
\* key, and flattening what flatten_dict returned for any Record returns it
\* again.
C14_FlattenIdempotent ==
    FlatDone =>
        /\ IsFlatRow(flat_d) => flat_res.row = flat_d.kv
        /\ FlattenDict(Map(flat_res.row), "", flat_sep) = [err |-> FALSE, row |-> flat_res.row]

C14_Witness ==
    /\ FlatDone
    /\ IsFlatRow(flat_d)
    /\ Len(flat_d.kv) = 2
    /\ flat_d.kv[2].v = Null
    /\ flat_res.row = flat_d.kv

-----------------------------------------------------------------------------
(* Further claims about filter_by_date_range                                *)

\* C15: when a bound given to filter_by_date_range does not parse as a date,
\* the call does not raise and returns the Records it was given, unchanged.
C15_BoundErrorDegrades ==
    (flt_pc = "done" /\ BoundGiven /\ ~BoundsParse) =>
        /\ ~flt_res.raised
        /\ flt_res.out = flt_data

-----------------------------------------------------------------------------
(* Claims about the multi-target runs                                       *)

BulkReturned == bulk_pc = "returned"

\* What the first k iterations should have added to all_data: the list each
\* call returned, in target order.
RECURSIVE Accumulated(_, _)
Accumulated(visits, k) ==
    IF k = 0 THEN <<>>
    ELSE Accumulated(visits, k - 1)
         \o (IF visits[k].outcome.raised THEN <<>> ELSE visits[k].outcome.out)

RaisedVisits(visits) == {k \in 1..Len(visits) : visits[k].outcome.raised}

\* C16: when a multi-target run returns, every target was visited once, in
\* order, whatever exception an earlier target ended with; each exception was
\* logged; and the returned list holds what every target that did not raise
\* returned, in target order.
C16_ErrorIsolation ==
    BulkReturned =>
        /\ Len(bulk_visits) = Len(bulk_names)
        /\ \A k \in 1..Len(bulk_visits) :
              bulk_visits[k].target = k /\ bulk_visits[k].name = bulk_names[k]
        /\ bulk_errors = Cardinality(RaisedVisits(bulk_visits))
        /\ bulk_all = Accumulated(bulk_visits, Len(bulk_visits))

C16_Witness ==
    /\ BulkReturned
    /\ Len(bulk_names) = 3
    /\ Len(bulk_visits) = 3
    /\ ~bulk_visits[1].outcome.raised /\ bulk_visits[1].outcome.out # <<>>
    /\ bulk_visits[2].outcome.raised
    /\ ~bulk_visits[3].outcome.raised /\ bulk_visits[3].outcome.out # <<>>
    /\ Len(bulk_all) = 2
    /\ bulk_errors = 1

\* C19: a target whose page navigation failed contributes no Record: the call
\* for it returns an empty list.
C19_FailedVisitAbandoned ==
    \A k \in 1..Len(bulk_visits) :
        (bulk_visits[k].visit.launch_ok /\ ~bulk_visits[k].visit.nav_ok) =>
            (bulk_visits[k].outcome.raised \/ bulk_visits[k].outcome.out = <<>>)

\* C20: between the end of the visit of a target and the start of the visit
\* of the next one, at least the delay of the run elapses, also when the
\* earlier target ended with an exception.
C20_DelayBetweenTargets ==
    \A k \in 1..(Len(bulk_visits) - 1) :
        bulk_visits[k + 1].began - bulk_visits[k].ended >= Delay(bulk_variant)

-----------------------------------------------------------------------------
(* Further claims about the response handlers                               *)

\* The indicators of the URL policy as C17 lists them.
ClaimedIndicators ==
    {<<"a", "p", "i">>,
     <<"d", "a", "t", "a">>,
     <<"j", "s", "o", "n">>,
     <<"x", "h", "r">>,
     <<"g", "r", "a", "p", "h", "q", "l">>,
     <<"r", "e", "s", "t">>,
     <<"a", "j", "a", "x">>}
HasClaimedIndicator(url) == \E ind \in ClaimedIndicators : Contains(ind, Lower(url))

\* A response with status 200 and a JSON content type whose body parses.
SuccessfulJson(r) == r.status = 200 /\ Contains(K_json, Lower(r.ctype)) /\ r.json_ok

\* C17: in the scripts that test the URL (the full scraper and the discovery
\* tool), every captured entry comes from a URL that contains one of the
\* indicators api, data, json, xhr, graphql, rest, ajax in any letter case,
\* and once every handler has finished while the page is open, every
\* successful JSON response with such a URL is in the captured list.
C17_IndicatorPolicy ==
    cap_variant \in {"full", "discovery"} =>
        /\ \A i \in 1..Len(cap_list) : HasClaimedIndicator(cap_src[i].url)
        /\ (cap_pc = "open" /\ cap_pending = <<>>) =>
              \A r \in cap_seen :
                  (SuccessfulJson(r) /\ HasClaimedIndicator(r.url)) =>
                      \E i \in 1..Len(cap_src) : cap_src[i] = r

-----------------------------------------------------------------------------
(* Claims about the Records as they reach the file                          *)

Saved == ext_pc = "saved"

\* The key that holds the capture timestamp in each scraper.
TimestampKey(variant) == IF variant = "full" THEN "scraped_at" ELSE "scraped_timestamp"

\* The cell of line k of the table under column c; no text when the table has
\* no such column.
CellOf(table, k, c) ==
    IF \E j \in 1..Len(table.header) : table.header[j] = c
    THEN table.lines[k][CHOOSE j \in 1..Len(table.header) : table.header[j] = c]
    ELSE ""

\* C18: once the Records of a run are saved, every Record holds the name the
\* caller gave, which is not empty, and a non-empty capture timestamp, and so
\* does the line save_to_csv wrote for it, whatever keys the captured body had.
C18_ProvenanceSurvives ==
    Saved =>
        \A k \in 1..Len(ext_collected) :
            /\ ext_name # ""
            /\ HasKey(ext_collected[k].kv, "umpire_name")
            /\ Get(ext_collected[k].kv, "umpire_name") = Str(ext_name)
            /\ HasKey(ext_collected[k].kv, TimestampKey(ext_variant))
            /\ Get(ext_collected[k].kv, TimestampKey(ext_variant)).t = "str"
            /\ CellOf(ext_table, k, "umpire_name") = ext_name
            /\ CellOf(ext_table, k, TimestampKey(ext_variant)) # ""

\* C24: when reading the body of a response fails, the failure is logged and
\* that response is not in the captured list; and once every handler has
\* finished while the page is open, every other response the handler went on
\* to read is in the list, whatever failed before or after it.
C24_ParseErrorIsolated ==
    /\ cap_warnings = cap_failed
    /\ \A i \in 1..Len(cap_src) : cap_src[i].json_ok
    /\ (cap_pc = "open" /\ cap_pending = <<>>) =>
          \A r \in cap_seen :
              (ReadsBody(cap_variant, r) /\ r.json_ok) => \E i \in 1..Len(cap_src) : cap_src[i] = r

\* C21: at every point of a run at most one browser is open, and it is the
\* browser of the current target; once the call for a target has returned or
\* raised, on the success path and on every error path, and when the browser
\* of the next target is about to be started, none is open.
C21_OneSessionAtATime ==
    /\ Cardinality(run_open) <= 1
    /\ run_open \subseteq {run_i}
    /\ run_result # "none" => run_open = {}
    /\ run_pc \in {"loop", "launch", "sleep", "returned", "interrupted"} => run_open = {}

\* The browser of the second target is open after the call for the first
\* one started a browser and raised from the full scraper: its context or
\* page could not be created.
C21_Witness ==
    /\ run_variant = "full"
    /\ run_i = 2 /\ run_open = {2}
    /\ run_opened = 2 /\ run_errors = 1 /\ ~run_interrupted

\* The target whose call ended last.
RunTarget ==
    IF run_pc \in {"loop", "returned"} /\ run_result # "none" THEN run_i - 1 ELSE run_i

\* The Records the processing loop makes of every entry a handler of the
\* target appended while its browser was open.
RunExpected == CollectedFrom(run_variant, run_names[RunTarget], run_responses, 0)

\* C22: once the call for a target has returned, every response whose
\* handler completed before the browser was closed has its Records in the
\* result of the target, whichever await it completed during; and every
\* Record of the result that came from a response came from one of those.
C22_CaptureBeforeTeardown ==
    run_result = "returned" =>
       /\ \A k \in 1..Len(RunExpected) :
             \E j \in 1..Len(run_collected) : run_collected[j] = RunExpected[k]
       /\ \A j \in 1..Len(run_collected) :
             HasKey(run_collected[j].kv, "id") =>
                \E k \in 1..Len(RunExpected) : run_collected[j] = RunExpected[k]

\* C23: once the user has interrupted a run, the run has ended there: the
\* loop's handler did not take the interrupt and go on to the next target,
\* all_data was not returned, and the run has written no file.
C23_InterruptEndsRun ==
    /\ wr_files = {}
    /\ run_interrupted => run_pc = "interrupted"

====
